---- MODULE Spec2Model ----
(***************************************************************************)
(* Stage-gated session model of shock-block: the Handover singleton, its   *)
(* Session / Stage / Roadmap objects, the HandoverManager that binds it to *)
(* a scene, and the InputSystem that asks the gate before emitting events. *)
(*                                                                         *)
(* JavaScript values are encoded uniformly so that TLC can compare them:   *)
(* Session and Stage objects are records and the null reference to one is  *)
(* the record NullRef; a Roadmap object is referred to by its name; values *)
(* that are a string or null use the string sentinels null / undefined,    *)
(* which are outside every input set.                                      *)
(***************************************************************************)
EXTENDS Integers, Sequences, FiniteSets, TLC

VARIABLES
    handover,   \* the Handover singleton: initialized, defaultRoadmap, sessions, currentSessionId
    call,       \* the operation performed by the last step, with its arguments
    ret,        \* what that operation returned
    ran,        \* how many times that operation invoked the callback it was given
    now,        \* Date.now(), in milliseconds
    managers,   \* the HandoverManager of each scene: status, sessionId, currentSession
    input,      \* the InputSystem: lastInputTime, isInputActive, inputBuffer, disabledKeys
    timers,     \* the delayedCall callbacks not yet fired, in the order scheduled
    emitted,    \* the events the last step emitted on scene.events, in order
    heldSince,  \* when isInputActive['spacebar'] last turned true (0: never); not
                \* a field of the program, kept to state how long a hold has lasted
    shot,       \* the ShotSystem: isCharging, chargeStartTime, currentCharge,
                \* inCooldown, and its delayedCall(200) callbacks not yet fired
    firedAt,    \* when releaseShot last ended a charge (-1: never); not a field
                \* of the program, kept to state how long ago the last fire was
    aim         \* the AimSystem: currentAngle, targetAngle, isAiming, inputDirection,
                \* lastDirectionChange

vars == <<handover, call, ret, ran, now, managers, input, timers, emitted, heldSince,
          shot, firedAt, aim>>

----------------------------------------------------------------------------
(* JavaScript values *)

null == "<null>"
undefined == "<undefined>"
NullRef == [isNull |-> TRUE]

\* JavaScript truthiness of a string-or-null value: null, undefined and the
\* empty string are falsy.
Truthy(v) == v \notin {null, undefined, ""}

\* a JavaScript number is kept as twice its value, so that the numbers between
\* two indices (0.5, 1.5) are values too: Whole(n) is the integer n
Whole(n) == 2 * n

IsWhole(x) == x % 2 = 0

Bool(b) == [type |-> "boolean", value |-> b]
Str(s) == [type |-> "string", value |-> s]
Num(n) == [type |-> "number", value |-> n]
Void == [type |-> "undefined"]

----------------------------------------------------------------------------
(* Stage and Roadmap: Handover.ts 93-146, and the roadmaps the repository builds *)

Stage(name, allowedActions) == [name |-> name, allowedActions |-> allowedActions]

Roadmap(name, stages) == [name |-> name, stages |-> stages]

\* new Roadmap(name): the stage list defaults to []
EmptyRoadmap == Roadmap("EmptyRoadmap", << >>)

\* the two-stage roadmap of the bounded-advancement scenario
TwoStageRoadmap ==
    Roadmap("TwoStageRoadmap", << Stage("A", {"x"}), Stage("B", {"y"}) >>)

\* HandoverFactory.createGameRoadmap
\* a roadmap whose GamePreparation stage allows fire
createGameRoadmap_firing ==
    Roadmap("MainGameRoadmap",
            << Stage("MainMenu", {"startGame", "openSettings", "viewHelp"}),
               Stage("GamePreparation", {"aim", "charge", "fire", "cancelShot"}),
               Stage("ActiveGameplay", {"aim", "charge", "fire", "pause"}),
               Stage("Paused", {"resume", "restart", "quit"}),
               Stage("LevelComplete", {"nextLevel", "retry", "mainMenu"}),
               Stage("GameOver", {"restart", "mainMenu"}) >>)

createGameRoadmap ==
    Roadmap("MainGameRoadmap",
            << Stage("MainMenu", {"startGame", "openSettings", "viewHelp"}),
               Stage("GamePreparation", {"aim", "charge", "cancelShot"}),
               Stage("ActiveGameplay", {"aim", "charge", "fire", "pause"}),
               Stage("Paused", {"resume", "restart", "quit"}),
               Stage("LevelComplete", {"nextLevel", "retry", "mainMenu"}),
               Stage("GameOver", {"restart", "mainMenu"}) >>)

\* Stage.isActionAllowed: allowedActions.includes(action)
Stage_isActionAllowed(stage, action) == action \in stage.allowedActions

\* the Roadmap objects of a run; a reference to one is its name
\* HandoverFactory.createCustomRoadmap with one stage that whitelists the
\* action identifiers the pointer handler asks the gate for
TouchRoadmap ==
    Roadmap("TouchRoadmap", << Stage("TouchAim", {"aim-left", "aim-right"}) >>)

AllRoadmaps == {EmptyRoadmap, TwoStageRoadmap, createGameRoadmap, TouchRoadmap}

\* roadmap.stages, through a reference
Stages(roadmap) == (CHOOSE r \in AllRoadmaps : r.name = roadmap).stages

\* stages[i] with JavaScript's 0-based indexing; an index outside the array
\* reads undefined
StageAt(stages, i) ==
    IF IsWhole(i) /\ (i \div 2) + 1 \in DOMAIN stages
    THEN stages[(i \div 2) + 1]
    ELSE NullRef

\* stages.findIndex(stage => stage.name === name): the first match, or -1
FindIndex(stages, name) ==
    LET hits == {i \in DOMAIN stages : stages[i].name = name}
    IN  IF hits = {} THEN Whole(-1)
        ELSE Whole((CHOOSE i \in hits : \A j \in hits : i <= j) - 1)

----------------------------------------------------------------------------
(* Session: Handover.ts 10-88.  Each operation returns the session after the
   call (s) and the value returned (ret). *)

Keys == {"k"}
Values == {"v1", "v2"}

\* constructor: index 0, state {}
Session(id, roadmap) ==
    [id |-> id, roadmap |-> roadmap, currentStageIndex |-> Whole(0),
     state |-> [k \in Keys |-> undefined]]

\* a getCurrentStage that ignores the index and reads the first stage
Session_getCurrentStage_first(s) ==
    IF Len(Stages(s.roadmap)) = 0 THEN NullRef
    ELSE StageAt(Stages(s.roadmap), Whole(0))

Session_getCurrentStage(s) ==
    IF Len(Stages(s.roadmap)) = 0 THEN NullRef
    ELSE StageAt(Stages(s.roadmap), s.currentStageIndex)

\* an advanceStage that wraps around to the first stage after the last one
Session_advanceStage_wrapping(s) ==
    IF s.currentStageIndex < Whole(Len(Stages(s.roadmap)) - 1)
    THEN [s |-> [s EXCEPT !.currentStageIndex = @ + Whole(1)], ret |-> TRUE]
    ELSE [s |-> [s EXCEPT !.currentStageIndex = Whole(0)], ret |-> TRUE]

Session_advanceStage(s) ==
    IF s.currentStageIndex < Whole(Len(Stages(s.roadmap)) - 1)
    THEN [s |-> [s EXCEPT !.currentStageIndex = @ + Whole(1)], ret |-> TRUE]
    ELSE [s |-> s, ret |-> FALSE]

\* a setStage whose upper bound is off by one
Session_setStage_inclusive(s, index) ==
    IF index >= Whole(0) /\ index <= Whole(Len(Stages(s.roadmap)))
    THEN [s |-> [s EXCEPT !.currentStageIndex = index], ret |-> TRUE]
    ELSE [s |-> s, ret |-> FALSE]

Session_setStage(s, index) ==
    IF index >= Whole(0) /\ index < Whole(Len(Stages(s.roadmap)))
    THEN [s |-> [s EXCEPT !.currentStageIndex = index], ret |-> TRUE]
    ELSE [s |-> s, ret |-> FALSE]

Session_setStageByName(s, name) ==
    LET index == FindIndex(Stages(s.roadmap), name)
    IN  IF index # Whole(-1)
        THEN [s |-> [s EXCEPT !.currentStageIndex = index], ret |-> TRUE]
        ELSE [s |-> s, ret |-> FALSE]

Session_getState(s, key) == s.state[key]

Session_setState(s, key, value) == [s EXCEPT !.state[key] = value]

----------------------------------------------------------------------------
(* Handover: Handover.ts 151-334.  h is the singleton's fields; an operation
   that mutates returns the fields after the call (h) and its result (ret). *)

EmptyMap == [id \in {} |-> NullRef]

\* Map.set(key, value)
MapSet(m, key, value) ==
    [id \in DOMAIN m \cup {key} |-> IF id = key THEN value ELSE m[id]]

\* Map.delete(key)
MapDelete(m, key) == [id \in DOMAIN m \ {key} |-> m[id]]

\* private constructor
Handover_new ==
    [initialized |-> FALSE, defaultRoadmap |-> null,
     sessions |-> EmptyMap, currentSessionId |-> null]

\* an initialize that also rebinds the existing sessions to the new roadmap
Handover_initialize_rebinding(h, roadmap) ==
    [h EXCEPT !.defaultRoadmap = roadmap, !.initialized = TRUE,
              !.sessions = [id \in DOMAIN @ |-> [@[id] EXCEPT !.roadmap = roadmap]]]

Handover_initialize(h, roadmap) ==
    [h EXCEPT !.defaultRoadmap = roadmap, !.initialized = TRUE]

\* a startSession that asks for initialize() only when no roadmap is passed
Handover_startSession_lenient(h, sessionId, roadmap) ==
    LET sessionRoadmap == IF roadmap # undefined THEN roadmap ELSE h.defaultRoadmap
    IN  IF sessionRoadmap = null \/ (~h.initialized /\ roadmap = undefined)
        THEN [h |-> h, ret |-> NullRef]
        ELSE LET session == Session(sessionId, sessionRoadmap)
             IN  [h |-> [h EXCEPT !.sessions = MapSet(@, sessionId, session),
                                  !.currentSessionId = sessionId],
                  ret |-> session]

\* a startSession that keeps a session already registered under the id
Handover_startSession_keeping(h, sessionId, roadmap) ==
    IF ~h.initialized THEN [h |-> h, ret |-> NullRef]
    ELSE LET sessionRoadmap == IF roadmap # undefined THEN roadmap ELSE h.defaultRoadmap
         IN  IF sessionRoadmap = null THEN [h |-> h, ret |-> NullRef]
             ELSE LET session == IF sessionId \in DOMAIN h.sessions
                                 THEN h.sessions[sessionId]
                                 ELSE Session(sessionId, sessionRoadmap)
                  IN  [h |-> [h EXCEPT !.sessions = MapSet(@, sessionId, session),
                                       !.currentSessionId = sessionId],
                       ret |-> session]

\* roadmap is undefined when the optional argument is omitted
Handover_startSession(h, sessionId, roadmap) ==
    IF ~h.initialized THEN [h |-> h, ret |-> NullRef]
    ELSE LET sessionRoadmap == IF roadmap # undefined THEN roadmap ELSE h.defaultRoadmap
         IN  IF sessionRoadmap = null THEN [h |-> h, ret |-> NullRef]
             ELSE LET session == Session(sessionId, sessionRoadmap)
                  IN  [h |-> [h EXCEPT !.sessions = MapSet(@, sessionId, session),
                                       !.currentSessionId = sessionId],
                       ret |-> session]

\* sessionId is undefined when the optional argument is omitted;
\* sessionId || this.currentSessionId takes the pointer for every falsy id
Handover_endSession(h, sessionId) ==
    LET idToEnd == IF Truthy(sessionId) THEN sessionId ELSE h.currentSessionId
    IN  IF Truthy(idToEnd) /\ idToEnd \in DOMAIN h.sessions
        THEN [h |-> [h EXCEPT !.sessions = MapDelete(@, idToEnd),
                              !.currentSessionId =
                                  IF @ = idToEnd THEN null ELSE @],
              ret |-> TRUE]
        ELSE [h |-> h, ret |-> FALSE]

\* if (!this.currentSessionId) return null; sessions.get(id) || null
Handover_getCurrentSession(h) ==
    IF ~Truthy(h.currentSessionId) THEN NullRef
    ELSE IF h.currentSessionId \in DOMAIN h.sessions
         THEN h.sessions[h.currentSessionId]
         ELSE NullRef

Handover_setCurrentSession(h, sessionId) ==
    IF sessionId \in DOMAIN h.sessions
    THEN [h |-> [h EXCEPT !.currentSessionId = sessionId], ret |-> TRUE]
    ELSE [h |-> h, ret |-> FALSE]

Handover_getSession(h, sessionId) ==
    IF sessionId \in DOMAIN h.sessions THEN h.sessions[sessionId] ELSE NullRef

Handover_getCurrentStage(h) ==
    LET session == Handover_getCurrentSession(h)
    IN  IF session = NullRef THEN NullRef ELSE Session_getCurrentStage(session)

Handover_isActionAllowed(h, action) ==
    LET stage == Handover_getCurrentStage(h)
    IN  IF stage = NullRef THEN FALSE ELSE Stage_isActionAllowed(stage, action)

\* the Session object is shared with the registry: a mutation of the current
\* session is a mutation of the registry's entry
WithSession(h, r) ==
    [h |-> [h EXCEPT !.sessions[r.s.id] = r.s], ret |-> r.ret]

Handover_advanceStage(h) ==
    LET session == Handover_getCurrentSession(h)
    IN  IF session = NullRef THEN [h |-> h, ret |-> FALSE]
        ELSE WithSession(h, Session_advanceStage(session))

Handover_setStageByName(h, name) ==
    LET session == Handover_getCurrentSession(h)
    IN  IF session = NullRef THEN [h |-> h, ret |-> FALSE]
        ELSE WithSession(h, Session_setStageByName(session, name))

\* the name-or-index overload, the last definition of setStage in the class
Handover_setStage(h, nameOrIndex) ==
    IF nameOrIndex.type = "string"
    THEN Handover_setStageByName(h, nameOrIndex.value)
    ELSE LET session == Handover_getCurrentSession(h)
         IN  IF session = NullRef THEN [h |-> h, ret |-> FALSE]
             ELSE WithSession(h, Session_setStage(session, nameOrIndex.value))

----------------------------------------------------------------------------
(* HandoverManager's operations that only forward to the singleton:
   part_003 146-189 and 215-228 *)

\* what a callback handed to performAction may do to the gate
Callbacks == {"noop", "advanceStage"}

RunCallback(h, callback) ==
    IF callback = "advanceStage" THEN Handover_advanceStage(h).h ELSE h

HandoverManager_isActionAllowed(h, action) == Handover_isActionAllowed(h, action)

\* a performAction that runs the callback before it looks at the answer
HandoverManager_performAction_eager(h, action, callback) ==
    [h |-> RunCallback(h, callback),
     ret |-> HandoverManager_isActionAllowed(h, action),
     ran |-> 1]

\* ran counts the invocations of callback
HandoverManager_performAction(h, action, callback) ==
    IF HandoverManager_isActionAllowed(h, action)
    THEN [h |-> RunCallback(h, callback), ret |-> TRUE, ran |-> 1]
    ELSE [h |-> h, ret |-> FALSE, ran |-> 0]

HandoverManager_getSessionState(h, key) ==
    LET session == Handover_getCurrentSession(h)
    IN  IF session # NullRef THEN Session_getState(session, key) ELSE null

\* a setSessionState that writes into one store shared by all sessions
HandoverManager_setSessionState_shared(h, key, value) ==
    LET session == Handover_getCurrentSession(h)
    IN  IF session # NullRef
        THEN [h EXCEPT !.sessions =
                 [id \in DOMAIN @ |-> Session_setState(@[id], key, value)]]
        ELSE h

HandoverManager_setSessionState(h, key, value) ==
    LET session == Handover_getCurrentSession(h)
    IN  IF session # NullRef
        THEN [h EXCEPT !.sessions[session.id] = Session_setState(session, key, value)]
        ELSE h

----------------------------------------------------------------------------
(* InputSystem: part_004.  Each handler returns the InputSystem's fields after
   the call (input), the events it emitted (emitted), the callbacks performAction
   ran for it (ran), the number of times it asked the gate (checks) and, for
   the delayed keys, the timers it scheduled. *)

CLICK_DEBOUNCE_MS == 200
KEY_DELAY_MS == 100
BUFFER_SIZE == 5
RAPID_CHANGE_MS == 50
MAX_HOLD_MS == 2000
SCALE_WIDTH == 1024
SCALE_HEIGHT == 768
TOP_AREA == 50

\* lastInputTime[key] || 0 reads 0 for a key never recorded, so a missing
\* entry is kept as 0; isInputActive['spacebar'] is falsy until set
InputSystem_new ==
    [lastInputTime |-> [key \in {"spacebar", "pause", "confirm", "pointer"} |-> 0],
     isInputActive |-> [spacebar |-> FALSE],
     inputBuffer |-> [left |-> << >>, right |-> << >>],
     disabledKeys |-> {}]

\* handoverManager.performAction(action, () => scene.events.emit(event))
PerformEmit(h, action, event) ==
    LET r == HandoverManager_performAction(h, action, "noop")
    IN  [emitted |-> [i \in 1 .. r.ran |-> event], ran |-> r.ran, checks |-> 1]

Nothing(inp) == [input |-> inp, emitted |-> << >>, ran |-> 0, checks |-> 0]

\* a handleSpacebarPress without the debounce test
InputSystem_handleSpacebarPress_undebounced(inp, h, time) ==
    IF "spacebar" \in inp.disabledKeys THEN Nothing(inp)
    ELSE LET r == PerformEmit(h, "charge", "input-charge-start")
         IN  [input |-> [inp EXCEPT !.lastInputTime["spacebar"] = time,
                                    !.isInputActive["spacebar"] = TRUE],
              emitted |-> r.emitted, ran |-> r.ran, checks |-> r.checks]

\* a press that records its time and the held flag only when the gate allows
\* charge
InputSystem_handleSpacebarPress_gated(inp, h, time) ==
    LET lastPress == inp.lastInputTime["spacebar"]
    IN  IF "spacebar" \in inp.disabledKeys THEN Nothing(inp)
        ELSE IF time - lastPress < CLICK_DEBOUNCE_MS THEN Nothing(inp)
        ELSE LET r == PerformEmit(h, "charge", "input-charge-start")
             IN  [input |-> IF r.ran = 1
                            THEN [inp EXCEPT !.lastInputTime["spacebar"] = time,
                                             !.isInputActive["spacebar"] = TRUE]
                            ELSE inp,
                  emitted |-> r.emitted, ran |-> r.ran, checks |-> r.checks]

InputSystem_handleSpacebarPress(inp, h, time) ==
    LET lastPress == inp.lastInputTime["spacebar"]
    IN  IF "spacebar" \in inp.disabledKeys THEN Nothing(inp)
        ELSE IF time - lastPress < CLICK_DEBOUNCE_MS THEN Nothing(inp)
        ELSE LET r == PerformEmit(h, "charge", "input-charge-start")
             IN  [input |-> [inp EXCEPT !.lastInputTime["spacebar"] = time,
                                        !.isInputActive["spacebar"] = TRUE],
                  emitted |-> r.emitted, ran |-> r.ran, checks |-> r.checks]

InputSystem_handleSpacebarRelease(inp, h) ==
    IF ~inp.isInputActive["spacebar"] THEN Nothing(inp)
    ELSE LET r == PerformEmit(h, "fire", "input-fire")
         IN  [input |-> [inp EXCEPT !.isInputActive["spacebar"] = FALSE],
              emitted |-> r.emitted, ran |-> r.ran, checks |-> r.checks]

Abs(n) == IF n < 0 THEN -n ELSE n

Opposite(direction) == IF direction = "left" THEN "right" ELSE "left"

\* an isRapidDirectionChange that never finds a reversal
InputSystem_isRapidDirectionChange_never(inputBuffer, direction) == FALSE

InputSystem_isRapidDirectionChange(inputBuffer, direction) ==
    LET currentBuffer == inputBuffer[direction]
        oppositeBuffer == inputBuffer[Opposite(direction)]
    IN  IF Len(oppositeBuffer) = 0 THEN FALSE
        ELSE Abs(currentBuffer[Len(currentBuffer)] - oppositeBuffer[Len(oppositeBuffer)])
                 < RAPID_CHANGE_MS

\* a push that never evicts
Pushed_unbounded(buffer, time) == Append(buffer, time)

\* push(now), then shift() when the buffer is longer than BUFFER_SIZE
Pushed(buffer, time) ==
    LET b == Append(buffer, time)
    IN  IF Len(b) > BUFFER_SIZE THEN Tail(b) ELSE b

\* a handleDirectionalInput that does not look at the disabled keys
InputSystem_handleDirectionalInput_always(inp, h, time, direction) ==
    LET buffered == [inp EXCEPT !.inputBuffer[direction] = Pushed(@, time)]
    IN  IF InputSystem_isRapidDirectionChange(buffered.inputBuffer, direction)
        THEN Nothing(buffered)
        ELSE LET r == PerformEmit(h, "aim", "input-aim-" \o direction)
             IN  [input |-> buffered, emitted |-> r.emitted, ran |-> r.ran,
                  checks |-> r.checks]

\* a handleDirectionalInput that records only the presses it lets through
InputSystem_handleDirectionalInput_filtered(inp, h, time, direction) ==
    IF direction \in inp.disabledKeys THEN Nothing(inp)
    ELSE LET buffered ==
                 [inp EXCEPT !.inputBuffer[direction] = Pushed(@, time)]
         IN  IF InputSystem_isRapidDirectionChange(buffered.inputBuffer, direction)
             THEN Nothing(inp)
             ELSE LET r == PerformEmit(h, "aim", "input-aim-" \o direction)
                  IN  [input |-> buffered, emitted |-> r.emitted, ran |-> r.ran, checks |-> r.checks]

InputSystem_handleDirectionalInput(inp, h, time, direction) ==
    IF direction \in inp.disabledKeys THEN Nothing(inp)
    ELSE LET buffered ==
                 [inp EXCEPT !.inputBuffer[direction] = Pushed(@, time)]
         IN  IF InputSystem_isRapidDirectionChange(buffered.inputBuffer, direction)
             THEN Nothing(buffered)
             ELSE LET r == PerformEmit(h, "aim", "input-aim-" \o direction)
                  IN  [input |-> buffered, emitted |-> r.emitted, ran |-> r.ran, checks |-> r.checks]

\* the gate is asked when the delayed call fires, not here
InputSystem_handleDelayedInput(inp, pending, time, action) ==
    LET lastAction == inp.lastInputTime[action]
    IN  IF action \in inp.disabledKeys THEN [input |-> inp, timers |-> pending]
        ELSE IF time - lastAction < CLICK_DEBOUNCE_MS THEN [input |-> inp, timers |-> pending]
        ELSE [input |-> [inp EXCEPT !.lastInputTime[action] = time],
              timers |-> Append(pending, [action |-> action, due |-> time + KEY_DELAY_MS])]

\* a callback that emits without asking the gate
DelayedCallback_ungated(h, action) ==
    [emitted |-> << "input-" \o action >>, ran |-> 1, checks |-> 1]

\* the callback of scene.time.delayedCall
DelayedCallback(h, action) == PerformEmit(h, action, "input-" \o action)

\* scale.height / 2 and scale.width / 2 are whole numbers for the game's size
InputSystem_getActionFromPointerPosition(pointer) ==
    IF pointer.y > SCALE_HEIGHT \div 2
    THEN IF pointer.x < SCALE_WIDTH \div 2 THEN "aim-left" ELSE "aim-right"
    ELSE IF pointer.y < TOP_AREA THEN "pause"
    ELSE "fire"

InputSystem_handlePointerDown(inp, h, time, pointer) ==
    LET lastClick == inp.lastInputTime["pointer"]
    IN  IF time - lastClick < CLICK_DEBOUNCE_MS THEN Nothing(inp)
        ELSE LET action == InputSystem_getActionFromPointerPosition(pointer)
                 r == IF Truthy(action)
                      THEN PerformEmit(h, action, "input-" \o action)
                      ELSE [emitted |-> << >>, ran |-> 0, checks |-> 0]
             IN  [input |-> [inp EXCEPT !.lastInputTime["pointer"] = time],
                  emitted |-> r.emitted, ran |-> r.ran, checks |-> r.checks]

InputSystem_setKeyDisabled(inp, key, disabled) ==
    [inp EXCEPT !.disabledKeys = IF disabled THEN @ \cup {key} ELSE @ \ {key}]

\* an update that emits the forced release and leaves the held flag set
InputSystem_update_sticky(inp, time) ==
    IF inp.isInputActive["spacebar"]
       /\ time - inp.lastInputTime["spacebar"] > MAX_HOLD_MS
    THEN [input |-> inp, emitted |-> << "input-charge-max" >>, ran |-> 0, checks |-> 0]
    ELSE Nothing(inp)

\* update(): a spacebar held for more than MAX_HOLD_MS is released by force
InputSystem_update(inp, time) ==
    IF inp.isInputActive["spacebar"]
       /\ time - inp.lastInputTime["spacebar"] > MAX_HOLD_MS
    THEN [input |-> [inp EXCEPT !.isInputActive["spacebar"] = FALSE],
          emitted |-> << "input-charge-max" >>, ran |-> 0, checks |-> 0]
    ELSE Nothing(inp)

----------------------------------------------------------------------------
(* ShotSystem: the charge machine.  It listens on scene.events for
   input-charge-start, input-fire and input-charge-max.  Powers are kept in
   ten-thousandths, so that MIN_POWER 0.1, MAX_POWER 1.0 and POWER_RATE 0.0005
   per millisecond are whole numbers. *)

MAX_CHARGE_DURATION == 2000
MIN_POWER == 1000
MAX_POWER == 10000
POWER_RATE == 5
COOLDOWN_MS == 200

ShotSystem_new ==
    [isCharging |-> FALSE, chargeStartTime |-> 0, currentCharge |-> Num(0),
     inCooldown |-> FALSE, cooldownCalls |-> << >>]

\* a handler that returned without emitting or throwing
Quiet(s) == [shot |-> s, emitted |-> << >>, powers |-> << >>, threw |-> FALSE]

ShotSystem_canStartShot(s) == ~s.isCharging /\ ~s.inCooldown

\* a start that ignores the cooldown
ShotSystem_startCharging_hasty(s, time) ==
    IF s.isCharging THEN Quiet(s)
    ELSE Quiet([s EXCEPT !.isCharging = TRUE,
                         !.chargeStartTime = time,
                         !.currentCharge = Num(MIN_POWER)])

ShotSystem_startCharging(s, time) ==
    IF ~ShotSystem_canStartShot(s) THEN Quiet(s)
    ELSE Quiet([s EXCEPT !.isCharging = TRUE,
                         !.chargeStartTime = time,
                         !.currentCharge = Num(MIN_POWER)])

\* a release that does not test isCharging
ShotSystem_releaseShot_unguarded(s, h, time) ==
    LET finalPower == s.currentCharge
        r == HandoverManager_performAction(h, "fire", "noop")
    IN  [shot |-> [s EXCEPT !.isCharging = FALSE,
                            !.inCooldown = TRUE,
                            !.cooldownCalls = Append(@, time + COOLDOWN_MS)],
         emitted |-> [i \in 1 .. r.ran |-> "shot-fired"],
         powers |-> [i \in 1 .. r.ran |-> finalPower],
         threw |-> r.ran = 1 /\ finalPower = Void]

\* the state is reset and the cooldown scheduled before the gate is asked; the
\* callback emits shot-fired and then formats finalPower, which throws when
\* finalPower is undefined
ShotSystem_releaseShot(s, h, time) ==
    IF ~s.isCharging THEN Quiet(s)
    ELSE LET finalPower == s.currentCharge
             r == HandoverManager_performAction(h, "fire", "noop")
         IN  [shot |-> [s EXCEPT !.isCharging = FALSE,
                                 !.inCooldown = TRUE,
                                 !.cooldownCalls = Append(@, time + COOLDOWN_MS)],
              emitted |-> [i \in 1 .. r.ran |-> "shot-fired"],
              powers |-> [i \in 1 .. r.ran |-> finalPower],
              threw |-> r.ran = 1 /\ finalPower = Void]

\* this.MAX_CHARGE_POWER is not a member of the class, so the power becomes
\* undefined; this.fire is not a method of the class, so the call throws
ShotSystem_handleMaxCharge(s) ==
    IF ~s.isCharging THEN Quiet(s)
    ELSE [shot |-> [s EXCEPT !.currentCharge = Void],
          emitted |-> << >>, powers |-> << >>, threw |-> TRUE]

Min(a, b) == IF a <= b THEN a ELSE b

ShotSystem_update(s, time) ==
    IF ~s.isCharging THEN Quiet(s)
    ELSE LET chargeDuration == time - s.chargeStartTime
         IN  IF chargeDuration >= MAX_CHARGE_DURATION
             THEN ShotSystem_handleMaxCharge(s)
             ELSE Quiet([s EXCEPT !.currentCharge =
                            Num(Min(MIN_POWER + chargeDuration * POWER_RATE, MAX_POWER))])

\* a cancellation that leaves the machine charging
ShotSystem_cancelCharge_ignored(s) == s

ShotSystem_cancelCharge(s) ==
    IF s.isCharging THEN [s EXCEPT !.isCharging = FALSE] ELSE s

\* the scene's clock: a cooldown callback whose 200 ms have elapsed clears
\* inCooldown and is removed
CooldownCallbacks(s, time) ==
    IF \E i \in DOMAIN s.cooldownCalls : s.cooldownCalls[i] <= time
    THEN [s EXCEPT !.inCooldown = FALSE,
                   !.cooldownCalls = SelectSeq(@, LAMBDA due : due > time)]
    ELSE s

----------------------------------------------------------------------------
(* AimSystem: the aim machine.  It listens on scene.events for input-aim-left,
   input-aim-right and shot-fired.  Angles are kept in ten-thousandths of a
   degree; the product with ANGLE_SMOOTHING 0.1 is the tenth part, cut towards
   zero at that resolution. *)

AngleUnit == 10000
Degrees(d) == d * AngleUnit

MIN_ANGLE == Degrees(-80)
MAX_ANGLE == Degrees(80)
ANGLE_STEP == Degrees(2)
SMOOTHING_DIVISOR == 10
SNAP_DISTANCE == AngleUnit \div 10
DIRECTION_CHANGE_THRESHOLD_MS == 100

AimSystem_new ==
    [currentAngle |-> 0, targetAngle |-> 0, isAiming |-> FALSE,
     inputDirection |-> null, lastDirectionChange |-> 0]

Max(a, b) == IF a >= b THEN a ELSE b

\* a callback that does not clamp the target
AimCallback_unclamped(a, direction) ==
    [a EXCEPT !.isAiming = TRUE,
              !.targetAngle = IF direction = "left"
                              THEN a.currentAngle - ANGLE_STEP
                              ELSE a.currentAngle + ANGLE_STEP]

\* the callback of performAction('aim', ...) in setAimDirection
AimCallback(a, direction) ==
    [a EXCEPT !.isAiming = TRUE,
              !.targetAngle = IF direction = "left"
                              THEN Max(a.currentAngle - ANGLE_STEP, MIN_ANGLE)
                              ELSE Min(a.currentAngle + ANGLE_STEP, MAX_ANGLE)]

\* a handler without the 100 ms rule
AimSystem_setAimDirection_unbuffered(a, h, time, direction) ==
    LET stored == [a EXCEPT !.inputDirection = direction,
                            !.lastDirectionChange =
                                IF a.inputDirection # direction THEN time ELSE @]
    IN  IF HandoverManager_performAction(h, "aim", "noop").ran = 1
        THEN AimCallback(stored, direction)
        ELSE stored

\* the direction and the time of its change are stored before the gate is asked
AimSystem_setAimDirection(a, h, time, direction) ==
    IF a.inputDirection # direction
       /\ time - a.lastDirectionChange < DIRECTION_CHANGE_THRESHOLD_MS
    THEN a
    ELSE LET stored == [a EXCEPT !.inputDirection = direction,
                                 !.lastDirectionChange =
                                     IF a.inputDirection # direction THEN time ELSE @]
         IN  IF HandoverManager_performAction(h, "aim", "noop").ran = 1
             THEN AimCallback(stored, direction)
             ELSE stored

\* a reset that also recentres the target
AimSystem_resetAim_recentring(a) ==
    [a EXCEPT !.isAiming = FALSE, !.inputDirection = null, !.targetAngle = 0]

AimSystem_resetAim(a) == [a EXCEPT !.isAiming = FALSE, !.inputDirection = null]

\* (target - current) * ANGLE_SMOOTHING
Smoothed(difference) ==
    IF difference >= 0 THEN difference \div SMOOTHING_DIVISOR
    ELSE -((-difference) \div SMOOTHING_DIVISOR)

\* an update that emits on every tick
AimSystem_update_chatty(a) ==
    LET centred == IF ~a.isAiming /\ a.inputDirection = null
                   THEN [a EXCEPT !.targetAngle = 0]
                   ELSE a
        moved == centred.currentAngle
                     + Smoothed(centred.targetAngle - centred.currentAngle)
        snapped == IF Abs(moved - centred.targetAngle) < SNAP_DISTANCE
                   THEN centred.targetAngle
                   ELSE moved
    IN  [aim |-> [centred EXCEPT !.currentAngle = snapped],
         emitted |-> << "aim-angle-changed" >>,
         angles |-> << snapped >>]

\* an update that never snaps onto the target
AimSystem_update_unsnapped(a) ==
    LET centred == IF ~a.isAiming /\ a.inputDirection = null
                   THEN [a EXCEPT !.targetAngle = 0]
                   ELSE a
        moved == centred.currentAngle
                     + Smoothed(centred.targetAngle - centred.currentAngle)
    IN  IF centred.currentAngle # centred.targetAngle
        THEN [aim |-> [centred EXCEPT !.currentAngle = moved],
              emitted |-> << "aim-angle-changed" >>,
              angles |-> << moved >>]
        ELSE [aim |-> centred, emitted |-> << >>, angles |-> << >>]

\* update(): recentre when idle, move a tenth of the way, snap when within
\* 0.1 degrees, and emit aim-angle-changed when the angle was off target
AimSystem_update(a) ==
    LET centred == IF ~a.isAiming /\ a.inputDirection = null
                   THEN [a EXCEPT !.targetAngle = 0]
                   ELSE a
        moved == centred.currentAngle
                     + Smoothed(centred.targetAngle - centred.currentAngle)
        snapped == IF Abs(moved - centred.targetAngle) < SNAP_DISTANCE
                   THEN centred.targetAngle
                   ELSE moved
    IN  IF centred.currentAngle # centred.targetAngle
        THEN [aim |-> [centred EXCEPT !.currentAngle = snapped],
              emitted |-> << "aim-angle-changed" >>,
              angles |-> << snapped >>]
        ELSE [aim |-> centred, emitted |-> << >>, angles |-> << >>]

----------------------------------------------------------------------------
(* Inputs of the gate's operations *)

MaxIndexArg == 2

SessionIds == {"", "s1", "s2"}
Roadmaps == {EmptyRoadmap.name, TwoStageRoadmap.name}
StageNameArgs == {"A", "B", "DoesNotExist"}
\* every number from -1 to MaxIndexArg in steps of one half
IndexArgs == Whole(-1) .. Whole(MaxIndexArg)
StageArgs == {Str(n) : n \in StageNameArgs} \cup {Num(i) : i \in IndexArgs}
ActionArgs == {"x", "y", "invalidAction"}

----------------------------------------------------------------------------
(* The gate driven through its public operations *)

StartTime == 1000

Scenes == {"Game", "GameOver"}

\* a scene whose create() has not run
NoManager == [status |-> "none", sessionId |-> null, currentSession |-> NullRef]

Init ==
    /\ handover = Handover_new
    /\ call = [op |-> "getInstance"]
    /\ ret = Void
    /\ ran = 0
    /\ now = StartTime
    /\ managers = [scene \in Scenes |-> NoManager]
    /\ input = InputSystem_new
    /\ timers = << >>
    /\ emitted = << >>
    /\ heldSince = 0
    /\ shot = ShotSystem_new
    /\ firedAt = -1
    /\ aim = AimSystem_new

\* a call on the gate leaves the scenes and the input pipeline alone
GateStep ==
    /\ emitted' = << >>
    /\ UNCHANGED <<now, managers, input, timers, heldSince, shot, firedAt, aim>>

Initialize(roadmap) ==
    /\ handover' = Handover_initialize(handover, roadmap)
    /\ call' = [op |-> "initialize", roadmap |-> roadmap]
    /\ ret' = Void
    /\ ran' = 0
    /\ GateStep

StartSession(sessionId, roadmap) ==
    LET r == Handover_startSession(handover, sessionId, roadmap)
    IN  /\ handover' = r.h
        /\ call' = [op |-> "startSession", sessionId |-> sessionId, roadmap |-> roadmap]
        /\ ret' = r.ret
        /\ ran' = 0
        /\ GateStep

EndSession(sessionId) ==
    LET r == Handover_endSession(handover, sessionId)
    IN  /\ handover' = r.h
        /\ call' = [op |-> "endSession", sessionId |-> sessionId]
        /\ ret' = Bool(r.ret)
        /\ ran' = 0
        /\ GateStep

SetCurrentSession(sessionId) ==
    LET r == Handover_setCurrentSession(handover, sessionId)
    IN  /\ handover' = r.h
        /\ call' = [op |-> "setCurrentSession", sessionId |-> sessionId]
        /\ ret' = Bool(r.ret)
        /\ ran' = 0
        /\ GateStep

SetStage(nameOrIndex) ==
    LET r == Handover_setStage(handover, nameOrIndex)
    IN  /\ handover' = r.h
        /\ call' = [op |-> "setStage", nameOrIndex |-> nameOrIndex]
        /\ ret' = Bool(r.ret)
        /\ ran' = 0
        /\ GateStep

AdvanceStage ==
    LET r == Handover_advanceStage(handover)
    IN  /\ handover' = r.h
        /\ call' = [op |-> "advanceStage"]
        /\ ret' = Bool(r.ret)
        /\ ran' = 0
        /\ GateStep

IsActionAllowed(action) ==
    /\ handover' = handover
    /\ call' = [op |-> "isActionAllowed", action |-> action]
    /\ ret' = Bool(Handover_isActionAllowed(handover, action))
    /\ ran' = 0
    /\ GateStep

PerformAction(action, callback) ==
    LET r == HandoverManager_performAction(handover, action, callback)
    IN  /\ handover' = r.h
        /\ call' = [op |-> "performAction", action |-> action, callback |-> callback]
        /\ ret' = Bool(r.ret)
        /\ ran' = r.ran
        /\ GateStep

SetSessionState(key, value) ==
    /\ handover' = HandoverManager_setSessionState(handover, key, value)
    /\ call' = [op |-> "setSessionState", key |-> key, value |-> value]
    /\ ret' = Void
    /\ ran' = 0
    /\ GateStep

GetSessionState(key) ==
    /\ handover' = handover
    /\ call' = [op |-> "getSessionState", key |-> key]
    /\ ret' = Str(HandoverManager_getSessionState(handover, key))
    /\ ran' = 0
    /\ GateStep

GateNext ==
    \/ \E roadmap \in Roadmaps : Initialize(roadmap)
    \/ \E sessionId \in SessionIds, roadmap \in Roadmaps \cup {undefined} :
          StartSession(sessionId, roadmap)
    \/ \E sessionId \in SessionIds \cup {undefined} : EndSession(sessionId)
    \/ \E sessionId \in SessionIds : SetCurrentSession(sessionId)
    \/ \E nameOrIndex \in StageArgs : SetStage(nameOrIndex)
    \/ AdvanceStage
    \/ \E action \in ActionArgs : IsActionAllowed(action)
    \/ \E action \in ActionArgs, callback \in Callbacks : PerformAction(action, callback)
    \/ \E key \in Keys, value \in Values : SetSessionState(key, value)
    \/ \E key \in Keys : GetSessionState(key)

Next == GateNext

Spec == Init /\ [][Next]_vars

----------------------------------------------------------------------------
(* HandoverManager bound to a scene: part_003 101-141 and 194-201 *)

MaxTicks == 2

\* a reference to the Session object created under sessionId
Ref(sessionId) == [ref |-> sessionId]

\* constructor: sessionId = `session_${Date.now()}`, and the once('shutdown')
\* listener is registered
HandoverManager_new(time) ==
    [status |-> "running", sessionId |-> "session_" \o ToString(time),
     currentSession |-> NullRef]

\* initialize(): installs the game roadmap unless a session is current
HandoverManager_initialize(h) ==
    IF Handover_getCurrentSession(h) = NullRef
    THEN Handover_initialize(h, createGameRoadmap.name)
    ELSE h

\* startSession(): handover.startSession(this.sessionId)
HandoverManager_startSession(h, m) ==
    LET r == Handover_startSession(h, m.sessionId, undefined)
    IN  [h |-> r.h,
         m |-> [m EXCEPT !.currentSession =
                   IF r.ret = NullRef THEN NullRef ELSE Ref(r.ret.id)],
         ret |-> r.ret]

\* endSession(): handover.endSession() with no id
HandoverManager_endSession(h) == Handover_endSession(h, undefined).h

\* the once('shutdown') listener
OnShutdown(h) ==
    IF Handover_getCurrentSession(h) # NullRef
    THEN HandoverManager_endSession(h)
    ELSE h

ManagerStageArgs == {"GamePreparation", "GameOver"}

\* the scene's create() constructs its manager
ManagerNew(scene) ==
    /\ managers[scene].status # "running"
    /\ managers' = [managers EXCEPT ![scene] = HandoverManager_new(now)]
    /\ call' = [op |-> "new HandoverManager", scene |-> scene]
    /\ ret' = Void
    /\ ran' = 0
    /\ UNCHANGED <<handover, now, input, timers, emitted, heldSince, shot, firedAt, aim>>

ManagerInitialize(scene) ==
    /\ managers[scene].status = "running"
    /\ handover' = HandoverManager_initialize(handover)
    /\ call' = [op |-> "manager.initialize", scene |-> scene]
    /\ ret' = Void
    /\ ran' = 0
    /\ UNCHANGED <<now, managers, input, timers, emitted, heldSince, shot, firedAt, aim>>

ManagerStartSession(scene) ==
    /\ managers[scene].status = "running"
    /\ LET r == HandoverManager_startSession(handover, managers[scene])
       IN  /\ handover' = r.h
           /\ managers' = [managers EXCEPT ![scene] = r.m]
           /\ ret' = r.ret
    /\ call' = [op |-> "manager.startSession", scene |-> scene]
    /\ ran' = 0
    /\ UNCHANGED <<now, input, timers, emitted, heldSince, shot, firedAt, aim>>

ManagerEndSession(scene) ==
    /\ managers[scene].status = "running"
    /\ handover' = HandoverManager_endSession(handover)
    /\ call' = [op |-> "manager.endSession", scene |-> scene]
    /\ ret' = Void
    /\ ran' = 0
    /\ UNCHANGED <<now, managers, input, timers, emitted, heldSince, shot, firedAt, aim>>

\* HandoverManager.setStage only forwards to the singleton: neither of them
\* emits on scene.events
ManagerSetStage(scene, stageName) ==
    /\ managers[scene].status = "running"
    /\ LET r == Handover_setStage(handover, Str(stageName))
       IN  handover' = r.h /\ ret' = Bool(r.ret)
    /\ call' = [op |-> "manager.setStage", scene |-> scene, stageName |-> stageName]
    /\ ran' = 0
    /\ emitted' = << >>
    /\ UNCHANGED <<now, managers, input, timers, heldSince, shot, firedAt, aim>>

\* HandoverManager.advanceStage only forwards too: nothing is emitted
ManagerAdvanceStage(scene) ==
    /\ managers[scene].status = "running"
    /\ LET r == Handover_advanceStage(handover)
       IN  handover' = r.h /\ ret' = Bool(r.ret)
    /\ call' = [op |-> "manager.advanceStage", scene |-> scene]
    /\ ran' = 0
    /\ emitted' = << >>
    /\ UNCHANGED <<now, managers, input, timers, heldSince, shot, firedAt, aim>>

\* the scene shuts down: its events emit 'shutdown' and the listener runs
SceneShutdown(scene) ==
    /\ managers[scene].status = "running"
    /\ handover' = OnShutdown(handover)
    /\ managers' = [managers EXCEPT ![scene].status = "shutdown"]
    /\ call' = [op |-> "shutdown", scene |-> scene]
    /\ ret' = Void
    /\ ran' = 0
    /\ UNCHANGED <<now, input, timers, emitted, heldSince, shot, firedAt, aim>>

\* a millisecond passes
Tick ==
    /\ now < StartTime + MaxTicks
    /\ now' = now + 1
    /\ call' = [op |-> "tick"]
    /\ ret' = Void
    /\ ran' = 0
    /\ UNCHANGED <<handover, managers, input, timers, emitted, heldSince, shot, firedAt, aim>>

ManagerNext ==
    \/ \E scene \in Scenes : ManagerNew(scene)
    \/ \E scene \in Scenes : ManagerInitialize(scene)
    \/ \E scene \in Scenes : ManagerStartSession(scene)
    \/ \E scene \in Scenes : ManagerEndSession(scene)
    \/ \E scene \in Scenes, stageName \in ManagerStageArgs :
          ManagerSetStage(scene, stageName)
    \/ \E scene \in Scenes : ManagerAdvanceStage(scene)
    \/ \E scene \in Scenes : SceneShutdown(scene)
    \/ Tick

SpecManager == Init /\ [][ManagerNext]_vars


----------------------------------------------------------------------------
(* The input pipeline of a scene: the keyboard and pointer listeners of
   InputSystem.setupInputHandlers, the clock that fires the delayed calls and
   the per-frame update.  The handlers read the gate and never change it. *)

MaxElapsed == 100
MaxBuffered == 1
MaxTimers == 1
FrameDeltas == {100}
PointerXs == {100, 900}
PointerYs == {10, 200, 600}
DisableKeys == {"spacebar"}
InputRoadmaps == {createGameRoadmap.name, TouchRoadmap.name}
InputStageArgs == {"ActiveGameplay"}

InputStep(op, r) ==
    /\ call' = [op |-> op, checks |-> r.checks]
    /\ ret' = Void
    /\ ran' = r.ran
    /\ input' = r.input
    /\ emitted' = r.emitted
    /\ heldSince' = IF ~input.isInputActive["spacebar"] /\ r.input.isInputActive["spacebar"]
                    THEN now
                    ELSE heldSince

KeydownSpace ==
    /\ InputStep("keydown-SPACE", InputSystem_handleSpacebarPress(input, handover, now))
    /\ UNCHANGED <<handover, now, managers, timers, shot, firedAt, aim>>

KeyupSpace ==
    /\ InputStep("keyup-SPACE", InputSystem_handleSpacebarRelease(input, handover))
    /\ UNCHANGED <<handover, now, managers, timers, shot, firedAt, aim>>

\* a directional key press while fewer than limit timestamps are buffered
KeydownDirectionUpTo(direction, limit) ==
    /\ Len(input.inputBuffer["left"]) + Len(input.inputBuffer["right"]) < limit
    /\ InputStep("keydown-" \o direction,
                 InputSystem_handleDirectionalInput(input, handover, now, direction))
    /\ UNCHANGED <<handover, now, managers, timers, shot, firedAt, aim>>

KeydownDirection(direction) == KeydownDirectionUpTo(direction, MaxBuffered)

KeydownDelayed(action) ==
    LET r == InputSystem_handleDelayedInput(input, timers, now, action)
    IN  /\ Len(timers) < MaxTimers
        /\ InputStep("keydown-" \o action, Nothing(r.input))
        /\ timers' = r.timers
        /\ UNCHANGED <<handover, now, managers, shot, firedAt, aim>>

PointerDown(pointer) ==
    /\ InputStep("pointerdown", InputSystem_handlePointerDown(input, handover, now, pointer))
    /\ UNCHANGED <<handover, now, managers, timers, shot, firedAt, aim>>

SetKeyDisabled(key, disabled) ==
    /\ input' = InputSystem_setKeyDisabled(input, key, disabled)
    /\ call' = [op |-> "setKeyDisabled", checks |-> 0, key |-> key, disabled |-> disabled]
    /\ ret' = Void
    /\ ran' = 0
    /\ emitted' = << >>
    /\ UNCHANGED <<handover, now, managers, timers, heldSince, shot, firedAt, aim>>

\* the scene's clock: every pending call whose delay has elapsed runs, in the
\* order scheduled, and is removed
RECURSIVE FireDue(_, _, _)
FireDue(h, pending, time) ==
    IF pending = << >>
    THEN [timers |-> << >>, emitted |-> << >>, ran |-> 0, checks |-> 0]
    ELSE LET head == Head(pending)
             rest == FireDue(h, Tail(pending), time)
         IN  IF head.due <= time
             THEN LET r == DelayedCallback(h, head.action)
                  IN  [timers |-> rest.timers,
                       emitted |-> r.emitted \o rest.emitted,
                       ran |-> r.ran + rest.ran,
                       checks |-> r.checks + rest.checks]
             ELSE [timers |-> << head >> \o rest.timers,
                   emitted |-> rest.emitted,
                   ran |-> rest.ran,
                   checks |-> rest.checks]

\* one frame: the clock advances, the due delayed calls fire, then update()
FrameUntil(delta, horizon) ==
    LET fired == FireDue(handover, timers, now + delta)
        updated == InputSystem_update(input, now + delta)
    IN  /\ now + delta <= StartTime + horizon
        /\ now' = now + delta
        /\ timers' = fired.timers
        /\ InputStep("frame", [input |-> updated.input,
                               emitted |-> fired.emitted \o updated.emitted,
                               ran |-> fired.ran + updated.ran,
                               checks |-> fired.checks + updated.checks])
        /\ UNCHANGED <<handover, managers, shot, firedAt, aim>>

Frame(delta) == FrameUntil(delta, MaxElapsed)

InputNext ==
    \/ \E roadmap \in InputRoadmaps : Initialize(roadmap)
    \/ StartSession("s1", undefined)
    \/ \E name \in InputStageArgs : SetStage(Str(name))
    \/ KeydownSpace
    \/ KeyupSpace
    \/ \E direction \in {"left", "right"} : KeydownDirection(direction)
    \/ \E action \in {"pause", "confirm"} : KeydownDelayed(action)
    \/ \E x \in PointerXs, y \in PointerYs : PointerDown([x |-> x, y |-> y])
    \/ \E key \in DisableKeys, disabled \in BOOLEAN : SetKeyDisabled(key, disabled)
    \/ \E delta \in FrameDeltas : Frame(delta)

SpecInput == Init /\ [][InputNext]_vars

----------------------------------------------------------------------------
(* The input pipeline during play: the scene has created its manager, started
   its session and entered ActiveGameplay, where charge, fire, aim and pause
   are allowed and confirm is not. *)

PlayingHandover ==
    LET initialized == Handover_initialize(Handover_new, createGameRoadmap.name)
        started == Handover_startSession(initialized, "s1", undefined).h
    IN  Handover_setStage(started, Str("ActiveGameplay")).h

InitPlaying ==
    /\ handover = PlayingHandover
    /\ call = [op |-> "create"]
    /\ ret = Void
    /\ ran = 0
    /\ now = StartTime
    /\ managers = [scene \in Scenes |-> NoManager]
    /\ input = InputSystem_new
    /\ timers = << >>
    /\ emitted = << >>
    /\ heldSince = 0
    /\ shot = ShotSystem_new
    /\ firedAt = -1
    /\ aim = AimSystem_new

\* the debounced triggers, with frames of 50 ms
DebounceHorizon == 250
DebounceDeltas == {50}

DebounceNext ==
    \/ KeydownSpace
    \/ \E action \in {"pause", "confirm"} : KeydownDelayed(action)
    \/ \E x \in PointerXs, y \in PointerYs : PointerDown([x |-> x, y |-> y])
    \/ \E delta \in DebounceDeltas : FrameUntil(delta, DebounceHorizon)

SpecDebounce == InitPlaying /\ [][DebounceNext]_vars

\* left and right presses 20 ms or 100 ms apart
ReversalHorizon == 120
ReversalPresses == 3
ReversalDeltas == {20, 100}
ReversalStageArgs == {"ActiveGameplay", "Paused"}

ReversalNext ==
    \/ \E direction \in {"left", "right"} :
          KeydownDirectionUpTo(direction, ReversalPresses)
    \/ \E name \in ReversalStageArgs : SetStage(Str(name))
    \/ \E delta \in ReversalDeltas : FrameUntil(delta, ReversalHorizon)

SpecReversal == InitPlaying /\ [][ReversalNext]_vars

\* any number of left and right presses, at three instants 100 ms apart; the
\* two buffers together never hold more than 2 * BUFFER_SIZE timestamps
BufferHorizon == 200
BufferDeltas == {100}

BufferNext ==
    \/ \E direction \in {"left", "right"} :
          KeydownDirectionUpTo(direction, 2 * BUFFER_SIZE + 1)
    \/ \E delta \in BufferDeltas : FrameUntil(delta, BufferHorizon)

SpecBuffer == InitPlaying /\ [][BufferNext]_vars

\* key presses while keys are disabled and enabled again
DisabledHorizon == 200
DisabledPresses == 1
DisabledDeltas == {100}
DisabledKeyArgs == {"spacebar", "left", "pause"}

DisabledNext ==
    \/ KeydownSpace
    \/ KeyupSpace
    \/ \E direction \in {"left", "right"} :
          KeydownDirectionUpTo(direction, DisabledPresses)
    \/ \E action \in {"pause", "confirm"} : KeydownDelayed(action)
    \/ \E key \in DisabledKeyArgs, disabled \in BOOLEAN : SetKeyDisabled(key, disabled)
    \/ \E delta \in DisabledDeltas : FrameUntil(delta, DisabledHorizon)

SpecDisabled == InitPlaying /\ [][DisabledNext]_vars

\* the spacebar pressed, held and released over three seconds: frames of
\* 1000 ms and 1001 ms put ticks at holds of exactly 2000 ms and of 2001 ms
HoldHorizon == 3002
HoldDeltas == {1000, 1001}

HoldNext ==
    \/ KeydownSpace
    \/ KeyupSpace
    \/ \E delta \in HoldDeltas : FrameUntil(delta, HoldHorizon)

SpecHold == InitPlaying /\ [][HoldNext]_vars

\* pause and confirm presses while the stage changes and the session ends
\* and restarts between the press and the delayed call, with frames of 50 ms
DelayedHorizon == 300
DelayedDeltas == {50}
DelayedStageArgs == {"ActiveGameplay", "Paused"}

DelayedNext ==
    \/ \E action \in {"pause", "confirm"} : KeydownDelayed(action)
    \/ \E name \in DelayedStageArgs : SetStage(Str(name))
    \/ EndSession(undefined)
    \/ StartSession("s1", undefined)
    \/ \E delta \in DelayedDeltas : FrameUntil(delta, DelayedHorizon)

SpecDelayed == InitPlaying /\ [][DelayedNext]_vars

----------------------------------------------------------------------------
(* The charge machine driven by the events it listens for, by cancelCharge
   and by the frames of its scene, while the stage moves between
   GamePreparation, which denies fire, and ActiveGameplay, which allows it. *)

ShotHorizon == 2100
ShotDeltas == {100}
ShotStageArgs == {"GamePreparation", "ActiveGameplay"}

ShotStep(op, r) ==
    /\ call' = [op |-> op, powers |-> r.powers, threw |-> r.threw]
    /\ ret' = Void
    /\ ran' = Len(r.powers)
    /\ shot' = r.shot
    /\ emitted' = r.emitted
    /\ firedAt' = IF op = "input-fire" /\ shot.isCharging THEN now ELSE firedAt

OnChargeStart ==
    /\ ShotStep("input-charge-start", ShotSystem_startCharging(shot, now))
    /\ UNCHANGED <<handover, now, managers, input, timers, heldSince, aim>>

OnFire ==
    /\ ShotStep("input-fire", ShotSystem_releaseShot(shot, handover, now))
    /\ UNCHANGED <<handover, now, managers, input, timers, heldSince, aim>>

OnChargeMax ==
    /\ ShotStep("input-charge-max", ShotSystem_handleMaxCharge(shot))
    /\ UNCHANGED <<handover, now, managers, input, timers, heldSince, aim>>

CancelCharge ==
    /\ ShotStep("cancelCharge", Quiet(ShotSystem_cancelCharge(shot)))
    /\ UNCHANGED <<handover, now, managers, input, timers, heldSince, aim>>

\* one frame of a scene with a ShotSystem: the clock advances, the cooldown
\* callbacks that are due fire, then update()
ShotFrameUntil(delta, horizon) ==
    /\ now + delta <= StartTime + horizon
    /\ now' = now + delta
    /\ ShotStep("tick", ShotSystem_update(CooldownCallbacks(shot, now + delta), now + delta))
    /\ UNCHANGED <<handover, managers, input, timers, heldSince, aim>>

ShotFrame(delta) == ShotFrameUntil(delta, ShotHorizon)

ShotNext ==
    \/ OnChargeStart
    \/ OnFire
    \/ OnChargeMax
    \/ CancelCharge
    \/ \E name \in ShotStageArgs : SetStage(Str(name))
    \/ \E delta \in ShotDeltas : ShotFrame(delta)

SpecShot == InitPlaying /\ [][ShotNext]_vars

\* Date.now() moves on between two frames: the listeners of a frame run
\* before its update(), at a later time than the update() of the frame before
ClockAdvance(delta, horizon) ==
    /\ now + delta <= StartTime + horizon
    /\ now' = now + delta
    /\ call' = [op |-> "clock"]
    /\ ret' = Void
    /\ ran' = 0
    /\ emitted' = << >>
    /\ UNCHANGED <<handover, managers, input, timers, heldSince, shot, firedAt, aim>>

\* charges released at any time between one update() and the next: the
\* clock moves in steps of 100 ms and update() runs at the time reached
ReleaseHorizon == 1000
ReleaseDeltas == {100}

ReleaseNext ==
    \/ OnChargeStart
    \/ OnFire
    \/ \E name \in ShotStageArgs : SetStage(Str(name))
    \/ \E delta \in ReleaseDeltas : ClockAdvance(delta, ReleaseHorizon)
    \/ ShotFrameUntil(0, ReleaseHorizon)

SpecRelease == InitPlaying /\ [][ReleaseNext]_vars

----------------------------------------------------------------------------
(* The scene of InputIntegration: one InputSystem, one ShotSystem and one
   AimSystem on the same scene.events.  An event emitted by the input pipeline
   runs the listeners of the two machines before emit returns; an exception
   thrown by a listener leaves emit, the handler and the frame. *)

\* the ShotSystem listener of an event
ShotListener(s, h, e, time) ==
    CASE e = "input-charge-start" -> ShotSystem_startCharging(s, time)
      [] e = "input-fire" -> ShotSystem_releaseShot(s, h, time)
      [] e = "input-charge-max" -> ShotSystem_handleMaxCharge(s)
      [] OTHER -> Quiet(s)

\* the AimSystem listener of an event, and of the shot-fired it led to
AimListener(a, h, e, time, fired) ==
    CASE e = "input-aim-left" -> AimSystem_setAimDirection(a, h, time, "left")
      [] e = "input-aim-right" -> AimSystem_setAimDirection(a, h, time, "right")
      [] OTHER -> IF fired THEN AimSystem_resetAim(a) ELSE a

Heard(r, rest, released) ==
    [shot |-> rest.shot, aim |-> rest.aim,
     emitted |-> r.emitted \o rest.emitted,
     powers |-> r.powers \o rest.powers,
     threw |-> r.threw \/ rest.threw,
     released |-> released \/ rest.released]

RECURSIVE Listeners(_, _, _, _, _)

ListenersAfter(r, s, a, h, events, time) ==
    Heard(r,
          Listeners(r.shot, AimListener(a, h, Head(events), time, r.emitted # << >>), h,
                    IF r.threw THEN << >> ELSE Tail(events), time),
          Head(events) = "input-fire" /\ s.isCharging)

\* the listeners of a sequence of events, in order, up to the first that throws
Listeners(s, a, h, events, time) ==
    IF events = << >>
    THEN [shot |-> s, aim |-> a, emitted |-> << >>, powers |-> << >>,
          threw |-> FALSE, released |-> FALSE]
    ELSE ListenersAfter(ShotListener(s, h, Head(events), time), s, a, h, events, time)

PlayInputStep(op, r, heard) ==
    /\ call' = [op |-> op, checks |-> r.checks,
                powers |-> heard.powers, threw |-> heard.threw]
    /\ ret' = Void
    /\ ran' = r.ran
    /\ input' = r.input
    /\ shot' = heard.shot
    /\ aim' = heard.aim
    /\ emitted' = r.emitted \o heard.emitted
    /\ heldSince' = IF ~input.isInputActive["spacebar"]
                       /\ r.input.isInputActive["spacebar"]
                    THEN now
                    ELSE heldSince
    /\ firedAt' = IF heard.released THEN now ELSE firedAt
    /\ UNCHANGED <<handover, now, managers, timers>>

\* a handler of the input pipeline with the listeners its events reach
PlayInput(op, r) ==
    PlayInputStep(op, r, Listeners(shot, aim, handover, r.emitted, now))

PlayKeydownSpace ==
    PlayInput("keydown-SPACE", InputSystem_handleSpacebarPress(input, handover, now))

PlayKeyupSpace ==
    PlayInput("keyup-SPACE", InputSystem_handleSpacebarRelease(input, handover))

\* a tap in the middle band of the screen, whose action is fire
PlayPointers == {[x |-> SCALE_WIDTH \div 2, y |-> TOP_AREA]}

PlayPointerDown(pointer) ==
    PlayInput("pointerdown", InputSystem_handlePointerDown(input, handover, now, pointer))

\* InputIntegration.update: inputSystem.update, whose event runs its
\* listeners, then shotSystem.update, then aimSystem.update; the first that
\* throws ends the frame
Integration_result(updated, heard, charged, aimed) ==
    [input |-> updated.input, shot |-> charged.shot, aim |-> aimed.aim,
     emitted |-> updated.emitted \o heard.emitted \o charged.emitted \o aimed.emitted,
     powers |-> heard.powers \o charged.powers,
     threw |-> heard.threw \/ charged.threw,
     ran |-> updated.ran, checks |-> updated.checks]

Integration_aimSystem(updated, heard, charged) ==
    Integration_result(updated, heard, charged,
        IF heard.threw \/ charged.threw
        THEN [aim |-> heard.aim, emitted |-> << >>, angles |-> << >>]
        ELSE AimSystem_update(heard.aim))

Integration_shotSystem(updated, heard, time) ==
    Integration_aimSystem(updated, heard,
        IF heard.threw THEN Quiet(heard.shot)
        ELSE ShotSystem_update(heard.shot, time))

Integration_inputSystem(updated, s, a, h, time) ==
    Integration_shotSystem(updated, Listeners(s, a, h, updated.emitted, time), time)

InputIntegration_update(inp, s, a, h, time) ==
    Integration_inputSystem(InputSystem_update(inp, time), s, a, h, time)

\* what a frame leaves behind
PlayFrameStep(time, fired, u) ==
    /\ now' = time
    /\ timers' = fired.timers
    /\ call' = [op |-> "frame", checks |-> fired.checks + u.checks,
                powers |-> u.powers, threw |-> u.threw]
    /\ ret' = Void
    /\ ran' = fired.ran + u.ran
    /\ input' = u.input
    /\ shot' = u.shot
    /\ aim' = u.aim
    /\ emitted' = fired.emitted \o u.emitted
    /\ heldSince' = heldSince
    /\ firedAt' = firedAt
    /\ UNCHANGED <<handover, managers>>

\* one frame: the clock advances and runs the calls that are due, then the
\* scene's update() runs InputIntegration.update
PlayFrame(delta, horizon) ==
    /\ now + delta <= StartTime + horizon
    /\ PlayFrameStep(now + delta,
                     FireDue(handover, timers, now + delta),
                     InputIntegration_update(input, CooldownCallbacks(shot, now + delta),
                                             aim, handover, now + delta))

\* the spacebar pressed, held and released with frames of 1000 and 1001 ms,
\* in GamePreparation and ActiveGameplay
PlayHorizon == 3002
PlayDeltas == {1000, 1001}

PlayNext ==
    \/ PlayKeydownSpace
    \/ PlayKeyupSpace
    \/ \E pointer \in PlayPointers : PlayPointerDown(pointer)
    \/ \E name \in ShotStageArgs : SetStage(Str(name))
    \/ \E delta \in PlayDeltas : PlayFrame(delta, PlayHorizon)

SpecPlay == InitPlaying /\ [][PlayNext]_vars

\* A scene that is playing, whose session s1 is in ActiveGameplay: sessions
\* are started again under ids old and new while stages and session state
\* change, and no session is ended, so s1 is registered throughout.
RestartStageArgs == {"GamePreparation", "ActiveGameplay"}

RestartNext ==
    \/ \E sessionId \in SessionIds, roadmap \in Roadmaps \cup {undefined} :
          StartSession(sessionId, roadmap)
    \/ \E sessionId \in SessionIds : SetCurrentSession(sessionId)
    \/ \E name \in RestartStageArgs : SetStage(Str(name))
    \/ AdvanceStage
    \/ \E key \in Keys, value \in Values : SetSessionState(key, value)
    \/ \E key \in Keys : GetSessionState(key)

SpecRestart == InitPlaying /\ [][RestartNext]_vars

\* the spacebar pressed and released while the stage moves between Paused,
\* which denies charge and fire, and ActiveGameplay, with frames of 150 ms
\* and of 2001 ms
DeniedHorizon == 2151
DeniedDeltas == {150, 2001}
DeniedStageArgs == {"Paused", "ActiveGameplay"}

DeniedNext ==
    \/ PlayKeydownSpace
    \/ PlayKeyupSpace
    \/ \E name \in DeniedStageArgs : SetStage(Str(name))
    \/ \E delta \in DeniedDeltas : PlayFrame(delta, DeniedHorizon)

SpecDenied == InitPlaying /\ [][DeniedNext]_vars

\* a directional key of the same scene, while fewer than limit timestamps are
\* buffered
PlayKeydownDirection(direction, limit) ==
    /\ Len(input.inputBuffer["left"]) + Len(input.inputBuffer["right"]) < limit
    /\ PlayInput("keydown-" \o direction,
                 InputSystem_handleDirectionalInput(input, handover, now, direction))

\* aiming, charging and firing in ActiveGameplay with frames of 100 ms
SceneHorizon == 200
SceneDeltas == {100}
ScenePresses == 3

SceneNext ==
    \/ PlayKeydownSpace
    \/ PlayKeyupSpace
    \/ \E direction \in {"left", "right"} : PlayKeydownDirection(direction, ScenePresses)
    \/ \E delta \in SceneDeltas : PlayFrame(delta, SceneHorizon)

SpecScene == InitPlaying /\ [][SceneNext]_vars

----------------------------------------------------------------------------
(* The aim machine driven by the events it listens for and by the frames of
   its scene, while the stage moves between ActiveGameplay, which allows aim,
   and Paused, which denies it.  It starts at rest at the centre, near a limit
   or at a limit, as it is just after a shot has reset it. *)

AimHorizon == 200
AimDeltas == {50}
AimStartAngles == {Degrees(-80), 0, Degrees(78)}
AimStageArgs == {"ActiveGameplay", "Paused"}

InitAim ==
    /\ handover = PlayingHandover
    /\ call = [op |-> "create"]
    /\ ret = Void
    /\ ran = 0
    /\ now = StartTime
    /\ managers = [scene \in Scenes |-> NoManager]
    /\ input = InputSystem_new
    /\ timers = << >>
    /\ emitted = << >>
    /\ heldSince = 0
    /\ shot = ShotSystem_new
    /\ firedAt = -1
    /\ aim \in {[AimSystem_new EXCEPT !.currentAngle = angle, !.targetAngle = angle] :
                   angle \in AimStartAngles}

AimStep(op, r) ==
    /\ call' = [op |-> op, angles |-> r.angles]
    /\ ret' = Void
    /\ ran' = 0
    /\ aim' = r.aim
    /\ emitted' = r.emitted

\* a listener of the aim machine, which emits nothing
Aimed(a) == [aim |-> a, emitted |-> << >>, angles |-> << >>]

OnAim(direction) ==
    /\ AimStep("input-aim-" \o direction,
               Aimed(AimSystem_setAimDirection(aim, handover, now, direction)))
    /\ UNCHANGED <<handover, now, managers, input, timers, heldSince, shot, firedAt>>

OnShotFired ==
    /\ AimStep("shot-fired", Aimed(AimSystem_resetAim(aim)))
    /\ UNCHANGED <<handover, now, managers, input, timers, heldSince, shot, firedAt>>

\* one frame of a scene with an AimSystem: the clock advances, then update()
AimFrame(delta, horizon) ==
    /\ now + delta <= StartTime + horizon
    /\ now' = now + delta
    /\ AimStep("tick", AimSystem_update(aim))
    /\ UNCHANGED <<handover, managers, input, timers, heldSince, shot, firedAt>>

AimNext ==
    \/ \E direction \in {"left", "right"} : OnAim(direction)
    \/ OnShotFired
    \/ \E name \in AimStageArgs : SetStage(Str(name))
    \/ \E delta \in AimDeltas : AimFrame(delta, AimHorizon)

SpecAim == InitAim /\ [][AimNext]_vars

\* The aim machine left to its frames: at most one directional event arrives,
\* while no direction is stored, and update() then runs frame after frame.
\* update() does not read the clock, which stays where it is.
FirstAim(direction) ==
    /\ aim.inputDirection = null
    /\ OnAim(direction)

AimUpdate ==
    /\ AimStep("tick", AimSystem_update(aim))
    /\ UNCHANGED <<handover, now, managers, input, timers, heldSince, shot, firedAt>>

AimRestNext ==
    \/ \E direction \in {"left", "right"} : FirstAim(direction)
    \/ AimUpdate

\* the game loop calls update() on every frame
SpecAimRest == InitAim /\ [][AimRestNext]_vars /\ WF_vars(AimUpdate)

----------------------------------------------------------------------------
(* The scenes MainMenu, Game and GameOver.  create() builds the scene's
   manager, initializes the gate, starts the session, sets the scene's first
   stage and registers a one-shot pointerdown handler; the handler performs the
   scene's action, whose callback starts the next scene: the scene shuts down,
   which runs its manager's shutdown listener, and the next scene's create()
   runs. *)

GameScenes == {"MainMenu", "Game", "GameOver"}

\* the stage each create() sets
FirstStage ==
    [MainMenu |-> "MainMenu", Game |-> "GamePreparation", GameOver |-> "GameOver"]

\* the action each pointer handler performs, and the scene its callback starts
PointerAction == [MainMenu |-> "startGame", Game |-> "fire", GameOver |-> "mainMenu"]
StartedScene == [MainMenu |-> "Game", Game |-> "GameOver", GameOver |-> "MainMenu"]

\* the manager and the gate as create() leaves them
Scene_created(started, stageName) ==
    [h |-> Handover_setStage(started.h, Str(stageName)).h,
     m |-> [status |-> started.m.status, sessionId |-> started.m.sessionId,
            currentSession |-> started.m.currentSession, once |-> TRUE]]

Scene_create(h, time, stageName) ==
    Scene_created(HandoverManager_startSession(HandoverManager_initialize(h),
                                               HandoverManager_new(time)),
                  stageName)

\* the callback of the Game scene sets LevelComplete before it starts GameOver
Scene_callback(h, scene) ==
    IF scene = "Game" THEN Handover_setStage(h, Str("LevelComplete")).h ELSE h

\* scene.start(next): shutdown of the running scene, then create() of the next
Scene_start(h, time, scene) ==
    Scene_create(OnShutdown(Scene_callback(h, scene)), time,
                 FirstStage[StartedScene[scene]])

InitGame ==
    /\ handover = Handover_new
    /\ call = [op |-> "getInstance"]
    /\ ret = Void
    /\ ran = 0
    /\ now = StartTime
    /\ managers = [scene \in GameScenes |->
                      [status |-> "none", sessionId |-> null,
                       currentSession |-> NullRef, once |-> FALSE]]
    /\ input = InputSystem_new
    /\ timers = << >>
    /\ emitted = << >>
    /\ heldSince = 0
    /\ shot = ShotSystem_new
    /\ firedAt = -1
    /\ aim = AimSystem_new

\* the game starts with MainMenu
Boot ==
    LET created == Scene_create(handover, now, FirstStage["MainMenu"])
    IN  /\ \A scene \in GameScenes : managers[scene].status = "none"
        /\ handover' = created.h
        /\ managers' = [managers EXCEPT !["MainMenu"] = created.m]
        /\ call' = [op |-> "create", scene |-> "MainMenu"]
        /\ ret' = Void
        /\ ran' = 0
        /\ UNCHANGED <<now, input, timers, emitted, heldSince, shot, firedAt, aim>>

\* the first pointerdown on a running scene
ScenePointerDown(scene) ==
    LET allowed == HandoverManager_isActionAllowed(handover, PointerAction[scene])
        next == Scene_start(handover, now, scene)
    IN  /\ managers[scene].status = "running"
        /\ managers[scene].once
        /\ handover' = IF allowed THEN next.h ELSE handover
        /\ managers' = IF allowed
                       THEN [managers EXCEPT ![scene].status = "shutdown",
                                             ![scene].once = FALSE,
                                             ![StartedScene[scene]] = next.m]
                       ELSE [managers EXCEPT ![scene].once = FALSE]
        /\ call' = [op |-> "pointerdown", scene |-> scene]
        /\ ret' = Bool(allowed)
        /\ ran' = IF allowed THEN 1 ELSE 0
        /\ UNCHANGED <<now, input, timers, emitted, heldSince, shot, firedAt, aim>>

GameTicks == 8

\* a millisecond passes
GameTick ==
    /\ now < StartTime + GameTicks
    /\ now' = now + 1
    /\ call' = [op |-> "tick"]
    /\ ret' = Void
    /\ ran' = 0
    /\ UNCHANGED <<handover, managers, input, timers, emitted, heldSince, shot, firedAt, aim>>

GameNext ==
    \/ Boot
    \/ \E scene \in GameScenes : ScenePointerDown(scene)
    \/ GameTick

SpecGame == InitGame /\ [][GameNext]_vars

----------------------------------------------------------------------------
(* Properties of the gate *)

\* the registry holds a session under the current-session pointer, and
\* getCurrentSession() reports it
HasCurrent(h) ==
    Truthy(h.currentSessionId) /\ h.currentSessionId \in DOMAIN h.sessions

CurrentOf(h) == h.sessions[h.currentSessionId]

StagesOf(s) == Stages(s.roadmap)

\* the session's index is the index of a stage of its roadmap
AtStage(s) ==
    /\ IsWhole(s.currentStageIndex)
    /\ 0 <= s.currentStageIndex
    /\ s.currentStageIndex < Whole(Len(StagesOf(s)))

StageOf(s) == StagesOf(s)[(s.currentStageIndex \div 2) + 1]

C2_PerformAction ==
    [][call'.op = "performAction" =>
          IF Handover_isActionAllowed(handover, call'.action)
          THEN ran' = 1 /\ ret'.value = TRUE
          ELSE ran' = 0 /\ ret'.value = FALSE /\ handover' = handover]_vars

C2_Witness ==
    /\ call.op = "performAction"
    /\ call.callback = "advanceStage"
    /\ ran = 1
    /\ ret.value = TRUE
    /\ HasCurrent(handover)
    /\ CurrentOf(handover).currentStageIndex = Whole(1)

\* whether nameOrIndex names a stage of session s, and the index it names
ValidStageArg(s, x) ==
    \/ x.type = "string" /\ \E i \in DOMAIN StagesOf(s) : StagesOf(s)[i].name = x.value
    \/ x.type = "number" /\ IsWhole(x.value)
                          /\ 0 <= x.value /\ x.value < Whole(Len(StagesOf(s)))

TargetIndex(s, x) ==
    IF x.type = "number" THEN x.value
    ELSE Whole((CHOOSE i \in DOMAIN StagesOf(s) :
                    /\ StagesOf(s)[i].name = x.value
                    /\ \A j \in DOMAIN StagesOf(s) :
                          StagesOf(s)[j].name = x.value => i <= j) - 1)

\* C4: setStage(x) succeeds exactly when x is the name of a stage of the
\* current session's roadmap or an index within it; on success that stage is
\* current whatever the stage was before (and nothing else changes), on failure
\* it returns false and the gate is unchanged.
C4_SetStage ==
    [][call'.op = "setStage" =>
          IF HasCurrent(handover) /\ ValidStageArg(CurrentOf(handover), call'.nameOrIndex)
          THEN /\ ret'.value = TRUE
               /\ handover' =
                     [handover EXCEPT !.sessions[handover.currentSessionId].currentStageIndex =
                         TargetIndex(CurrentOf(handover), call'.nameOrIndex)]
          ELSE /\ ret'.value = FALSE
               /\ handover' = handover]_vars

C6_IndexInRange ==
    \A id \in DOMAIN handover.sessions :
        LET s == handover.sessions[id]
        IN  StagesOf(s) # << >> =>
                0 <= s.currentStageIndex /\ s.currentStageIndex < Whole(Len(StagesOf(s)))

\* a rejected out-of-range setStage at the last stage
C6_Witness ==
    /\ call.op = "setStage"
    /\ call.nameOrIndex = Num(Whole(2))
    /\ ret.value = FALSE
    /\ HasCurrent(handover)
    /\ CurrentOf(handover).currentStageIndex = Whole(1)

\* the session startSession(id, roadmap?) builds: the supplied roadmap, else
\* the default one; stage index 0; no state
FreshSession(h, id, roadmap) ==
    [id |-> id,
     roadmap |-> IF roadmap # undefined THEN roadmap ELSE h.defaultRoadmap,
     currentStageIndex |-> Whole(0),
     state |-> [k \in Keys |-> undefined]]

Started(h, id, roadmap) ==
    [h EXCEPT !.sessions = [x \in DOMAIN h.sessions \cup {id} |->
                               IF x = id THEN FreshSession(h, id, roadmap)
                               ELSE h.sessions[x]],
              !.currentSessionId = id]

\* C7 as stated: startSession returns none only when the gate was never
\* initialized and no roadmap is supplied; in every other case it creates the
\* session, registers it under id and makes it current.
C7_AsStated ==
    [][call'.op = "startSession" =>
          IF ~handover.initialized /\ call'.roadmap = undefined
          THEN ret' = NullRef
          ELSE /\ ret' = FreshSession(handover, call'.sessionId, call'.roadmap)
               /\ handover' = Started(handover, call'.sessionId, call'.roadmap)]_vars

\* C7 amended: startSession returns none, and changes nothing, whenever the
\* gate was never initialized, whether or not a roadmap is supplied; on an
\* initialized gate it creates a session at stage index 0 with empty state over
\* the supplied roadmap (else the default one), registers it under id, leaves
\* the other sessions alone and stores id as the current session id, so that
\* getCurrentSession() returns the new session for every non-empty id.
C7_StartSession ==
    [][call'.op = "startSession" =>
          IF ~handover.initialized
          THEN ret' = NullRef /\ handover' = handover
          ELSE /\ ret' = FreshSession(handover, call'.sessionId, call'.roadmap)
               /\ handover' = Started(handover, call'.sessionId, call'.roadmap)
               /\ Truthy(call'.sessionId) =>
                     Handover_getCurrentSession(handover') = ret']_vars

\* an explicit roadmap passed to a gate that was never initialized
C7_Witness ==
    /\ call.op = "startSession"
    /\ call.roadmap = TwoStageRoadmap.name
    /\ ~handover.initialized
    /\ ret = NullRef

\* C8: endSession(id) removes exactly the session registered under id and
\* returns true, clearing the current pointer iff that session was current;
\* for an id that is not registered it returns false and changes nothing;
\* without an id it ends the current session.
EndTarget(h, id) ==
    IF id = undefined THEN h.currentSessionId ELSE id

C8_EndSession ==
    [][call'.op = "endSession" =>
          LET target == EndTarget(handover, call'.sessionId)
          IN  IF target # null /\ target \in DOMAIN handover.sessions
              THEN /\ ret'.value = TRUE
                   /\ handover' =
                         [handover EXCEPT
                             !.sessions = [x \in DOMAIN handover.sessions \ {target} |->
                                              handover.sessions[x]],
                             !.currentSessionId = IF @ = target THEN null ELSE @]
              ELSE /\ ret'.value = FALSE
                   /\ handover' = handover]_vars

\* C10: setStage, advanceStage, setSessionState (and a performAction callback)
\* change at most the current session: the registry keeps its ids, every other
\* session keeps its stage index and state, and the pointer and default
\* roadmap stay; setSessionState(k, v) makes getState(k) of the current
\* session v and changes getState of no other session.
ThroughGate == {"setStage", "advanceStage", "setSessionState", "performAction"}

C10_NonCurrentInert ==
    [][call'.op \in ThroughGate =>
          /\ DOMAIN handover'.sessions = DOMAIN handover.sessions
          /\ handover'.currentSessionId = handover.currentSessionId
          /\ handover'.defaultRoadmap = handover.defaultRoadmap
          /\ \A id \in DOMAIN handover.sessions :
                IF HasCurrent(handover) /\ id = handover.currentSessionId
                THEN call'.op = "setSessionState" =>
                        /\ Session_getState(handover'.sessions[id], call'.key) = call'.value
                        /\ handover'.sessions[id].currentStageIndex =
                              handover.sessions[id].currentStageIndex
                ELSE handover'.sessions[id] = handover.sessions[id]]_vars

\* a second session is registered, not current, in another stage and with a
\* different value under the key just written
C10_Witness ==
    /\ call.op = "setSessionState"
    /\ HasCurrent(handover)
    /\ \E id \in DOMAIN handover.sessions :
          /\ id # handover.currentSessionId
          /\ Truthy(id)
          /\ handover.sessions[id].state["k"] = "v1"
          /\ handover.sessions[id].currentStageIndex = Whole(1)
          /\ CurrentOf(handover).state["k"] = "v2"
          /\ CurrentOf(handover).currentStageIndex = Whole(0)

\* C9: when scene X shuts down, the session X's manager started is no longer
\* registered, and the sessions started by the managers of other running
\* scenes stay registered, and current if they were.  (Managers constructed in
\* the same millisecond share a session id; the statement is taken for
\* managers whose ids differ.)
OwnsUniqueId(scene) ==
    \A other \in Scenes \ {scene} :
        managers[other].sessionId # managers[scene].sessionId

C9_ShutdownEndsOwnSession ==
    [][call'.op = "shutdown" =>
          LET m == managers[call'.scene]
          IN  (m.currentSession # NullRef /\ OwnsUniqueId(call'.scene)) =>
                 /\ m.sessionId \notin DOMAIN handover'.sessions
                 /\ \A other \in Scenes \ {call'.scene} :
                       ( /\ managers[other].status = "running"
                         /\ managers[other].sessionId \in DOMAIN handover.sessions )
                       => /\ managers[other].sessionId \in DOMAIN handover'.sessions
                          /\ handover.currentSessionId = managers[other].sessionId
                                => handover'.currentSessionId = managers[other].sessionId]_vars

----------------------------------------------------------------------------
(* Properties of the input pipeline *)

\* the action the gate must allow when the event is emitted
RequiredAction ==
    [event \in {"input-charge-start", "input-fire", "input-aim-left",
                "input-aim-right", "input-pause", "input-confirm"} |->
        CASE event = "input-charge-start" -> "charge"
          [] event = "input-fire" -> "fire"
          [] event \in {"input-aim-left", "input-aim-right"} -> "aim"
          [] event = "input-pause" -> "pause"
          [] event = "input-confirm" -> "confirm"]

\* C3: whenever the input pipeline emits input-charge-start, input-fire,
\* input-aim-left, input-aim-right, input-pause or input-confirm, the gate
\* allows the corresponding action (charge, fire, aim, aim, pause, confirm)
\* at that instant, for keyboard and pointer input alike.
C3_EmitOnlyWhenAllowed ==
    [][\A i \in DOMAIN emitted' :
          emitted'[i] \in DOMAIN RequiredAction
              => Handover_isActionAllowed(handover', RequiredAction[emitted'[i]])]_vars

----------------------------------------------------------------------------
(* Properties of initialize and of the stage-change notification *)

\* C11: initialize(roadmap) sets the default roadmap, which only initialize
\* changes and which a later startSession without a roadmap uses, and it leaves
\* the registry as it was: every existing session keeps its roadmap, its stage
\* index and its state, and the current-session pointer stays.
C11_InitializeFrame ==
    [][/\ call'.op = "initialize" =>
             /\ handover'.defaultRoadmap = call'.roadmap
             /\ handover'.initialized
             /\ handover'.sessions = handover.sessions
             /\ handover'.currentSessionId = handover.currentSessionId
       /\ handover'.defaultRoadmap # handover.defaultRoadmap => call'.op = "initialize"
       /\ (call'.op = "startSession" /\ call'.roadmap = undefined /\ ret' # NullRef)
             => ret'.roadmap = handover.defaultRoadmap]_vars

\* initialize with another roadmap while a session sits at its second stage
C11_Witness ==
    /\ call.op = "initialize"
    /\ \E id \in DOMAIN handover.sessions :
          /\ handover.sessions[id].roadmap # handover.defaultRoadmap
          /\ handover.sessions[id].currentStageIndex = Whole(1)

\* how many handover-stage-changed notifications a step emitted
StageChangedCount(events) ==
    Cardinality({i \in DOMAIN events : events[i] = "handover-stage-changed"})

\* C12: a successful setStage or advanceStage that changes the current stage
\* emits exactly one handover-stage-changed notification; a failed one emits
\* none.
C12_StageChangedNotified ==
    [][call'.op \in {"manager.setStage", "manager.advanceStage"} =>
          StageChangedCount(emitted') =
              IF ret'.value /\ Handover_getCurrentStage(handover')
                                  # Handover_getCurrentStage(handover)
              THEN 1 ELSE 0]_vars

----------------------------------------------------------------------------
(* Properties of the input filters *)

\* the key under which each debounced trigger keeps its timestamp
DebounceKey ==
    [op \in {"keydown-SPACE", "keydown-pause", "keydown-confirm", "pointerdown"} |->
        CASE op = "keydown-SPACE" -> "spacebar"
          [] op = "keydown-pause" -> "pause"
          [] op = "keydown-confirm" -> "confirm"
          [] op = "pointerdown" -> "pointer"]

\* C13: a debounced trigger (spacebar press, pause, confirm, pointer) that
\* arrives less than 200 ms after the last accepted trigger of the same key is
\* dropped: no event, no gate check, no timer, no change of any timestamp;
\* otherwise it is accepted whatever the other keys' timestamps are, and its
\* timestamp becomes the current time; so two accepted triggers of one key are
\* at least 200 ms apart.
C13_Debounce ==
    [][/\ call'.op \in DOMAIN DebounceKey =>
             LET key == DebounceKey[call'.op]
             IN  key \notin input.disabledKeys =>
                    IF now - input.lastInputTime[key] < 200
                    THEN /\ input' = input
                         /\ timers' = timers
                         /\ emitted' = << >>
                         /\ call'.checks = 0
                    ELSE /\ input'.lastInputTime =
                               [input.lastInputTime EXCEPT ![key] = now]
       /\ \A key \in DOMAIN input.lastInputTime :
             input'.lastInputTime[key] # input.lastInputTime[key] =>
                 input'.lastInputTime[key] - input.lastInputTime[key] >= 200]_vars

\* a spacebar press dropped 150 ms after the accepted one, although pause was
\* accepted in between
C13_Witness ==
    /\ call.op = "keydown-SPACE"
    /\ call.checks = 0
    /\ now - input.lastInputTime["spacebar"] = 150
    /\ now - input.lastInputTime["pause"] = 100

DirectionOf == [op \in {"keydown-left", "keydown-right"} |->
                   IF op = "keydown-left" THEN "left" ELSE "right"]

\* C14: a press of an enabled direction key is dropped (no gate check, no
\* input-aim event) exactly when the most recent timestamp in the opposite
\* direction's buffer is less than 50 ms before it; otherwise the gate is asked
\* once and input-aim-<direction> is emitted if it allows aim.
C14_ReversalSuppression ==
    [][call'.op \in DOMAIN DirectionOf =>
          LET direction == DirectionOf[call'.op]
              opposite == input.inputBuffer[IF direction = "left" THEN "right" ELSE "left"]
          IN  direction \notin input.disabledKeys =>
                 IF opposite # << >> /\ now - opposite[Len(opposite)] < 50
                 THEN emitted' = << >> /\ call'.checks = 0
                 ELSE /\ call'.checks = 1
                      /\ emitted' = IF Handover_isActionAllowed(handover, "aim")
                                    THEN << "input-aim-" \o direction >>
                                    ELSE << >>]_vars

\* left at t, right at t + 20 (suppressed), right again at t + 120: accepted
C14_Witness ==
    /\ call.op = "keydown-right"
    /\ call.checks = 1
    /\ emitted = << "input-aim-right" >>
    /\ input.inputBuffer["left"] = << StartTime >>
    /\ input.inputBuffer["right"] = << StartTime + 20, StartTime + 120 >>

\* the last n elements of a sequence
LastN(seq, n) ==
    IF Len(seq) <= n THEN seq ELSE SubSeq(seq, Len(seq) - n + 1, Len(seq))

\* C15: no direction buffer ever holds more than 5 timestamps; a press of an
\* enabled direction appends the current time to that direction's buffer and
\* keeps the 5 most recent entries in arrival order (the oldest is evicted when
\* a sixth arrives); nothing else changes a buffer.
C15_BufferBounded ==
    [][/\ \A d \in {"left", "right"} : Len(input'.inputBuffer[d]) <= 5
       /\ \A d \in {"left", "right"} :
             input'.inputBuffer[d] =
                 IF call'.op = "keydown-" \o d /\ d \notin input.disabledKeys
                 THEN LastN(Append(input.inputBuffer[d], now), 5)
                 ELSE input.inputBuffer[d]]_vars

\* a full buffer whose entries of the first instant have all been evicted
C15_Witness ==
    /\ call.op = "keydown-left"
    /\ input.inputBuffer["right"] = << StartTime >>
    /\ input.inputBuffer["left"] =
          << StartTime + 100, StartTime + 100, StartTime + 200,
             StartTime + 200, StartTime + 200 >>

\* the identifier each key press is looked up under in the disabled set
KeyIdentifier ==
    [op \in {"keydown-SPACE", "keydown-left", "keydown-right",
             "keydown-pause", "keydown-confirm"} |->
        CASE op = "keydown-SPACE" -> "spacebar"
          [] op = "keydown-left" -> "left"
          [] op = "keydown-right" -> "right"
          [] op = "keydown-pause" -> "pause"
          [] op = "keydown-confirm" -> "confirm"]

\* C16: a key press whose identifier is disabled changes nothing (timestamps,
\* buffers, held flag, timers), asks the gate nothing and emits nothing;
\* setKeyDisabled changes the disabled set only, and a press whose identifier
\* is enabled (again) is handled: a direction records its timestamp, the other
\* keys record theirs once their debounce window has passed.
C16_DisabledKeyDropped ==
    [][/\ call'.op \in DOMAIN KeyIdentifier =>
             LET key == KeyIdentifier[call'.op]
             IN  IF key \in input.disabledKeys
                 THEN /\ input' = input
                      /\ timers' = timers
                      /\ emitted' = << >>
                      /\ call'.checks = 0
                 ELSE IF key \in {"left", "right"}
                 THEN /\ input'.inputBuffer[key] # << >>
                      /\ input'.inputBuffer[key][Len(input'.inputBuffer[key])] = now
                 ELSE now - input.lastInputTime[key] >= 200
                          => input'.lastInputTime[key] = now
       /\ call'.op = "setKeyDisabled" =>
             /\ input' = [input EXCEPT !.disabledKeys =
                             IF call'.disabled THEN @ \cup {call'.key}
                             ELSE @ \ {call'.key}]
             /\ timers' = timers]_vars

\* a spacebar press outside its debounce window, dropped because the key is
\* disabled, while the gate would have allowed charge
C16_Witness ==
    /\ call.op = "keydown-SPACE"
    /\ "spacebar" \in input.disabledKeys
    /\ input.lastInputTime["spacebar"] = StartTime
    /\ now = StartTime + 200
    /\ Handover_isActionAllowed(handover, "charge")

\* how many forced releases a step emitted
ForcedReleases(events) ==
    Cardinality({i \in DOMAIN events : events[i] = "input-charge-max"})

C18_HoldMeasuredFromStart ==
    [][(call'.op = "frame" /\ input.isInputActive["spacebar"]
                           /\ now' - heldSince > 2000)
          => /\ ForcedReleases(emitted') = 1
             /\ ~input'.isInputActive["spacebar"]]_vars

\* what the gate answers for an action in the state h
GateAllows(h, action) ==
    /\ HasCurrent(h)
    /\ AtStage(CurrentOf(h))
    /\ action \in StageOf(CurrentOf(h)).allowedActions

DelayedEvents == {"input-pause", "input-confirm"}

\* C19: a pause or confirm press emits nothing and asks the gate nothing; when
\* accepted it only schedules a call due 100 ms later.  A frame asks the gate
\* once for every call that has come due, in the state the gate is in at that
\* frame, and emits input-<action> for exactly those it allows then; the calls
\* not yet due stay scheduled.
C19_DeferredGateCheck ==
    [][/\ call'.op \in {"keydown-pause", "keydown-confirm"} =>
             LET action == KeyIdentifier[call'.op]
             IN  /\ emitted' = << >>
                 /\ call'.checks = 0
                 /\ ran' = 0
                 /\ handover' = handover
                 /\ \/ timers' = timers /\ input' = input
                    \/ timers' = Append(timers, [action |-> action, due |-> now + 100])
       /\ call'.op = "frame" =>
             LET time == now'
                 gate == handover'
                 due == SelectSeq(timers, LAMBDA c : c.due <= time)
                 allowed == SelectSeq(due, LAMBDA c : GateAllows(gate, c.action))
             IN  /\ call'.checks = Len(due)
                 /\ SelectSeq(emitted', LAMBDA e : e \in DelayedEvents)
                       = [i \in 1 .. Len(allowed) |-> "input-" \o allowed[i].action]
                 /\ timers' = SelectSeq(timers, LAMBDA c : c.due > time)
       /\ call'.op \notin {"frame"} =>
             SelectSeq(emitted', LAMBDA e : e \in DelayedEvents) = << >>]_vars

\* the delayed call of a pause press fires after the session has ended: the
\* gate is asked then and nothing is emitted
C19_Witness ==
    /\ call.op = "frame"
    /\ call.checks = 1
    /\ emitted = << >>
    /\ ~HasCurrent(handover)
    /\ now - input.lastInputTime["pause"] = 100
    /\ timers = << >>

\* C20: a charge-start event moves the machine from idle to charging only
\* when it is not charging and no fire happened less than 200 ms ago; on entry
\* the start time is the current time and the power is MIN_POWER (0.1); a
\* charge-start while charging or inside the cooldown changes nothing of the
\* machine; no other step begins a charge, so no charge begins less than
\* 200 ms after a fire.
C20_StartCharging ==
    [][/\ call'.op = "input-charge-start" =>
             IF shot.isCharging \/ (firedAt >= 0 /\ now - firedAt < 200)
             THEN shot' = shot
             ELSE /\ shot'.isCharging
                  /\ shot'.chargeStartTime = now
                  /\ shot'.currentCharge = Num(1000)
                  /\ shot'.inCooldown = shot.inCooldown
                  /\ shot'.cooldownCalls = shot.cooldownCalls
       /\ (~shot.isCharging /\ shot'.isCharging) =>
             /\ call'.op = "input-charge-start"
             /\ firedAt >= 0 => now - firedAt >= 200]_vars

\* a charge begun exactly 200 ms after a fire, once the cooldown callback has
\* run
C20_Witness ==
    /\ call.op = "input-charge-start"
    /\ firedAt >= 0
    /\ now - firedAt = 200
    /\ shot.isCharging
    /\ shot.chargeStartTime = now
    /\ shot.currentCharge = Num(1000)
    /\ shot.cooldownCalls = << >>

\* the power of the machine is a number between MIN_POWER and MAX_POWER
PowerInRange(s) ==
    /\ s.currentCharge.type = "number"
    /\ 1000 <= s.currentCharge.value
    /\ s.currentCharge.value <= 10000

\* C21: in every state where the machine is charging the power is a number in
\* [0.1, 1.0], and after a tick that leaves the machine charging it is
\* min(MIN_POWER + elapsed * RATE, MAX_POWER), which is 1.0 from 2000 ms on.
C21_PowerBoundedMonotone ==
    shot.isCharging =>
        /\ PowerInRange(shot)
        /\ call.op = "tick" =>
              shot.currentCharge =
                  Num(Min(1000 + (now - shot.chargeStartTime) * 5, 10000))

\* C22: a release handled while the machine is charging and the gate allows
\* fire leaves the machine idle and in cooldown and emits exactly one
\* shot-fired, whose power is min(MIN_POWER + (releaseTime - startTime) * RATE,
\* MAX_POWER), wherever the release falls between the ticks.
C22_ReleasePower ==
    [][(call'.op = "input-fire" /\ shot.isCharging /\ GateAllows(handover, "fire")) =>
          /\ ~shot'.isCharging
          /\ shot'.inCooldown
          /\ emitted' = << "shot-fired" >>
          /\ call'.powers =
                << Num(Min(1000 + (now - shot.chargeStartTime) * 5, 10000)) >>]_vars

\* C23: the step that detects a charge held for 2000 ms or more, be it the
\* machine's own tick or the input pipeline's input-charge-max event, emits
\* exactly one shot-fired with power 1.0 and leaves the machine idle, so that
\* no later tick touches the charge of that episode.
C23_ForcedRelease ==
    [][(/\ shot.isCharging
        /\ \/ call'.op = "input-charge-max"
           \/ call'.op = "tick" /\ now' - shot.chargeStartTime >= 2000) =>
          /\ emitted' = << "shot-fired" >>
          /\ call'.powers = << Num(10000) >>
          /\ ~shot'.isCharging]_vars

\* C24: cancelCharge while charging clears isCharging and nothing else and
\* emits nothing; while idle it changes nothing.  shot-fired is emitted only by
\* a step that found the machine charging, so once an episode is cancelled no
\* release or tick fires for it.
C24_CancelCharge ==
    [][/\ call'.op = "cancelCharge" =>
             /\ shot' = [shot EXCEPT !.isCharging = FALSE]
             /\ emitted' = << >>
             /\ ~call'.threw
       /\ (\E i \in DOMAIN emitted' : emitted'[i] = "shot-fired") => shot.isCharging
       /\ (~shot.isCharging /\ call'.op \in {"input-fire", "tick", "input-charge-max"}) =>
             /\ emitted' = << >>
             /\ shot'.isCharging = FALSE]_vars

\* a charge begun 500 ms ago, last ticked now and ended by cancelCharge: no
\* cooldown is running, so no release ended it
C24_Witness ==
    /\ call.op = "cancelCharge"
    /\ ~shot.isCharging
    /\ shot.chargeStartTime = now - 500
    /\ shot.currentCharge = Num(3500)
    /\ ~shot.inCooldown
    /\ shot.cooldownCalls = << >>

\* C25: MIN_POWER + RATE * MAX_CHARGE_DURATION equals MAX_POWER, so a charging
\* machine shows the maximum power only once 2000 ms have elapsed.
C25_ConstantsConsistent ==
    /\ MIN_POWER + POWER_RATE * MAX_CHARGE_DURATION = MAX_POWER
    /\ (shot.isCharging /\ shot.currentCharge = Num(MAX_POWER)) =>
           now - shot.chargeStartTime >= MAX_CHARGE_DURATION

\* C26: no step of the scene (press, release, directional press, pointer tap,
\* frame) raises an exception, in any stage and with or without a session.
C26_NoException ==
    "threw" \in DOMAIN call => ~call.threw

\* C27: currentAngle and targetAngle are within [-80, 80] degrees in every
\* state, whatever directional events, shot-fired resets and ticks came.
C27_AnglesClamped ==
    /\ Degrees(-80) <= aim.currentAngle /\ aim.currentAngle <= Degrees(80)
    /\ Degrees(-80) <= aim.targetAngle /\ aim.targetAngle <= Degrees(80)

\* a press to the right with the angle between 78 and 80 degrees: the step of
\* 2 degrees would pass the limit and the target is 80
C27_Witness ==
    /\ call.op = "input-aim-right"
    /\ aim.isAiming
    /\ aim.currentAngle > Degrees(78)
    /\ aim.currentAngle < Degrees(80)
    /\ aim.targetAngle = Degrees(80)

\* the directional event is not dropped by the aim machine's own filter
AimAccepted(a, direction, time) ==
    a.inputDirection = direction \/ time - a.lastDirectionChange >= 100

\* C28: a directional event that the gate approves moves targetAngle by 2
\* degrees from its previous value towards the pressed direction, clamped to
\* the range, so n presses without a tick move it by n steps.
C28_TargetStep ==
    [][\A direction \in {"left", "right"} :
          (/\ call'.op = "input-aim-" \o direction
           /\ AimAccepted(aim, direction, now)
           /\ GateAllows(handover, "aim")) =>
              aim'.targetAngle =
                  IF direction = "left"
                  THEN Max(aim.targetAngle - Degrees(2), Degrees(-80))
                  ELSE Min(aim.targetAngle + Degrees(2), Degrees(80))]_vars

\* the target a tick works towards: 0 when the machine is idle
TickTarget(a) ==
    IF ~a.isAiming /\ a.inputDirection = null THEN 0 ELSE a.targetAngle

\* C29: a tick with the angle off its target strictly reduces the distance to
\* the target and never passes it, lands exactly on it when the remaining
\* distance would be below 0.1 degrees, and leaves an angle that is on target
\* where it is; with the target fixed the angle is on target after finitely
\* many ticks and stays there.
C29_Converges ==
    /\ [][call'.op = "tick" =>
             LET target == TickTarget(aim)
                 before == Abs(target - aim.currentAngle)
                 after == Abs(target - aim'.currentAngle)
             IN  /\ aim'.targetAngle = target
                 /\ before = 0 => after = 0
                 /\ before > 0 => after < before
                 /\ aim.currentAngle <= target =>
                       aim.currentAngle <= aim'.currentAngle /\ aim'.currentAngle <= target
                 /\ aim.currentAngle >= target =>
                       aim.currentAngle >= aim'.currentAngle /\ aim'.currentAngle >= target
                 /\ after # 0 => after >= Degrees(1) \div 10]_vars
    /\ <>[](aim.currentAngle = aim.targetAngle)

\* a tick that has just put the angle exactly on a target it was moving to
C29_Witness ==
    /\ call.op = "tick"
    /\ call.angles = << Degrees(2) >>
    /\ aim.currentAngle = Degrees(2)
    /\ aim.targetAngle = Degrees(2)
    /\ aim.isAiming

\* C30: once no further directional event arrives, targetAngle returns to 0
\* and currentAngle reaches 0 after enough ticks and stays there, with no shot
\* fired.
C30_Recentres ==
    <>[](aim.targetAngle = 0 /\ aim.currentAngle = 0)

\* C31: a shot-fired notification clears inputDirection and the aiming flag
\* and leaves currentAngle, targetAngle, lastDirectionChange and the direction
\* buffers of the input pipeline as they were.
C31_ShotFiredResetsAim ==
    [][(/\ call'.op = "keyup-SPACE"
        /\ \E i \in DOMAIN emitted' : emitted'[i] = "shot-fired") =>
           /\ aim'.inputDirection = null
           /\ ~aim'.isAiming
           /\ aim'.currentAngle = aim.currentAngle
           /\ aim'.targetAngle = aim.targetAngle
           /\ aim'.lastDirectionChange = aim.lastDirectionChange
           /\ input'.inputBuffer = input.inputBuffer]_vars

\* a shot fired after an accepted press to the right and before any tick
C31_Witness ==
    /\ call.op = "keyup-SPACE"
    /\ \E i \in DOMAIN emitted : emitted[i] = "shot-fired"
    /\ aim.inputDirection = null /\ ~aim.isAiming
    /\ aim.targetAngle = Degrees(2) /\ aim.currentAngle = 0
    /\ aim.lastDirectionChange > 0
    /\ input.inputBuffer["right"] # << >>

\* a tick emits aim-angle-changed with the new angle exactly when it moved the
\* angle, and a directional event emits nothing
EmitsOnChange ==
    /\ call'.op = "tick" =>
          \/ /\ aim'.currentAngle # aim.currentAngle
             /\ emitted' = << "aim-angle-changed" >>
             /\ call'.angles = << aim'.currentAngle >>
          \/ /\ aim'.currentAngle = aim.currentAngle
             /\ emitted' = << >>
    /\ call'.op \in {"input-aim-left", "input-aim-right"} => emitted' = << >>

\* C32 as stated: a tick emits aim-angle-changed exactly when currentAngle
\* changed during the tick, carrying the new currentAngle; a tick that finds
\* currentAngle equal to targetAngle emits nothing; a directional input alone
\* emits nothing.
C32_AsStated ==
    [][/\ EmitsOnChange
       /\ (call'.op = "tick" /\ aim.currentAngle = aim.targetAngle) =>
              emitted' = << >>]_vars

\* C32: a tick emits aim-angle-changed exactly when currentAngle changed
\* during the tick, carrying the new currentAngle; a tick that finds
\* currentAngle equal to the target it works towards (0 when the machine is
\* idle, targetAngle otherwise) emits nothing; a directional input alone emits
\* nothing.
C32_EmitsOnChange ==
    [][/\ EmitsOnChange
       /\ (call'.op = "tick" /\ aim.currentAngle = TickTarget(aim)) =>
              emitted' = << >>]_vars

\* a tick that moved the angle towards a target it has not reached
C32_Witness ==
    /\ call.op = "tick"
    /\ emitted = << "aim-angle-changed" >>
    /\ call.angles = << aim.currentAngle >>
    /\ aim.isAiming
    /\ aim.currentAngle # aim.targetAngle

\* C33: a charge ends within MAX_CHARGE_DURATION plus one tick: the frame
\* that finds the machine charging for 2000 ms or more leaves it idle, whether
\* or not a key release reached the machine.
C33_ChargeEnds ==
    [][(/\ call'.op = "frame"
        /\ shot.isCharging
        /\ now' - shot.chargeStartTime >= 2000) => ~shot'.isCharging]_vars

\* C34: the gate is asked before any mutation: a directional event handled
\* while the gate denies aim leaves the aim state as it was, and a release
\* handled while the gate denies fire leaves the charge state and the cooldown
\* as they were.
C34_GateBeforeMutation ==
    [][/\ (/\ call'.op \in {"input-aim-left", "input-aim-right"}
           /\ ~GateAllows(handover, "aim")) => aim' = aim
       /\ (/\ call'.op = "input-fire"
           /\ ~GateAllows(handover, "fire")) => shot' = shot]_vars

\* the number of shot-fired events in a sequence of events
ShotsFired(events) == Cardinality({i \in DOMAIN events : events[i] = "shot-fired"})

\* C35: a step emits at most one shot-fired, only when it found the machine
\* charging, and leaves the machine idle, so that a charging episode fires at
\* most once; a key release or a pointer fire that finds the machine idle
\* emits no shot-fired.
C35_OneShotPerEpisode ==
    [][/\ ShotsFired(emitted') <= 1
       /\ ShotsFired(emitted') = 1 => shot.isCharging /\ ~shot'.isCharging
       /\ (call'.op \in {"keyup-SPACE", "pointerdown"} /\ ~shot.isCharging) =>
              /\ ShotsFired(emitted') = 0
              /\ shot' = shot]_vars

\* after an episode that fired, a pointer tap whose fire the gate allows
\* reaches the idle machine and no shot follows
C35_Witness ==
    /\ call.op = "pointerdown"
    /\ emitted = << "input-fire" >>
    /\ firedAt >= 0
    /\ ~shot.isCharging

\* C36: a directional event whose direction differs from the stored
\* inputDirection, less than 100 ms after the last direction change, changes
\* nothing; 100 ms or more after it, it is taken as a direction change at the
\* current time; an event in the stored direction is never rejected and leaves
\* the time of the last change alone; after a reset the stored direction is
\* null, so an event of either direction falls under the same rule.
C36_DirectionChangeRule ==
    [][\A direction \in {"left", "right"} :
          call'.op = "input-aim-" \o direction =>
             /\ (/\ aim.inputDirection # direction
                 /\ now - aim.lastDirectionChange < 100) => aim' = aim
             /\ (/\ aim.inputDirection # direction
                 /\ now - aim.lastDirectionChange >= 100) =>
                    /\ aim'.inputDirection = direction
                    /\ aim'.lastDirectionChange = now
             /\ aim.inputDirection = direction =>
                    /\ aim'.inputDirection = direction
                    /\ aim'.lastDirectionChange = aim.lastDirectionChange
                    /\ GateAllows(handover, "aim") =>
                           /\ aim'.isAiming
                           /\ aim'.targetAngle =
                                  IF direction = "left"
                                  THEN Max(aim.currentAngle - Degrees(2), Degrees(-80))
                                  ELSE Min(aim.currentAngle + Degrees(2), Degrees(80))]_vars

\* an event to the left, less than 100 ms after a change to the right that a
\* shot has since reset, is ignored
C36_Witness ==
    /\ call.op = "input-aim-left"
    /\ aim.inputDirection = null
    /\ aim.lastDirectionChange >= StartTime
    /\ now - aim.lastDirectionChange < 100

\* C37: a spacebar press that passes the disabled and debounce filters records
\* its time and sets the held flag even when the gate denies charge; a press
\* less than 200 ms after a recorded one is dropped; a release that finds the
\* held flag set asks the gate for fire and emits input-fire exactly when the
\* gate allows it; a frame that finds the flag set more than 2000 ms after the
\* recorded time emits the forced release.
C37_DeniedPressStillHeld ==
    [][/\ (/\ call'.op = "keydown-SPACE"
           /\ "spacebar" \notin input.disabledKeys
           /\ now - input.lastInputTime["spacebar"] >= 200) =>
              /\ input'.lastInputTime["spacebar"] = now
              /\ input'.isInputActive["spacebar"]
              /\ call'.checks = 1
              /\ ~GateAllows(handover, "charge") => emitted' = << >>
       /\ (/\ call'.op = "keydown-SPACE"
           /\ now - input.lastInputTime["spacebar"] < 200) =>
              /\ input' = input
              /\ emitted' = << >>
              /\ call'.checks = 0
       /\ (/\ call'.op = "keyup-SPACE"
           /\ input.isInputActive["spacebar"]) =>
              /\ call'.checks = 1
              /\ ~input'.isInputActive["spacebar"]
              /\ IF GateAllows(handover, "fire")
                 THEN emitted' # << >> /\ emitted'[1] = "input-fire"
                 ELSE emitted' = << >>
       /\ (/\ call'.op = "frame"
           /\ input.isInputActive["spacebar"]
           /\ now' - input.lastInputTime["spacebar"] > 2000) =>
              /\ ForcedReleases(emitted') = 1
              /\ ~input'.isInputActive["spacebar"]]_vars

\* the release of a press that the gate denied: input-fire goes out although
\* no input-charge-start ever reached the charge machine
C37_Witness ==
    /\ call.op = "keyup-SPACE"
    /\ emitted = << "input-fire" >>
    /\ shot.chargeStartTime = 0
    /\ heldSince >= StartTime

\* C38: a press of an enabled direction key puts the current time at the end
\* of its direction's buffer before the reversal check and before the gate is
\* asked, so it is there whether the press is dropped as a reversal, denied by
\* the gate or let through; and the reversal check of the next press reads
\* that timestamp: a press less than 50 ms after the last recorded press of
\* the opposite direction is dropped, whatever became of that press.
C38_RejectedPressCounts ==
    [][call'.op \in DOMAIN DirectionOf =>
          LET direction == DirectionOf[call'.op]
              other == IF direction = "left" THEN "right" ELSE "left"
              recorded == input'.inputBuffer[direction]
              opposite == input'.inputBuffer[other]
          IN  direction \notin input.disabledKeys =>
                 /\ recorded # << >>
                 /\ recorded[Len(recorded)] = now
                 /\ opposite = input.inputBuffer[other]
                 /\ (opposite # << >> /\ now - opposite[Len(opposite)] < 50) =>
                        emitted' = << >> /\ call'.checks = 0]_vars

\* left at t, right at t + 20, left at t + 40: the third press is dropped
\* because of the second, which was itself dropped because of the first
C38_Witness ==
    /\ call.op = "keydown-left"
    /\ call.checks = 0
    /\ emitted = << >>
    /\ input.inputBuffer["left"] = << StartTime, StartTime + 40 >>
    /\ input.inputBuffer["right"] = << StartTime + 20 >>

\* C39: startSession with an id that is already registered replaces that
\* session: the registry keeps the same ids, the entry under the id is the
\* returned session at stage index 0 with an empty state map, the other
\* sessions are untouched, the id is stored as the current session id and,
\* for a non-empty id, the gate reads the new session: getCurrentSession()
\* returns it and getSessionState finds nothing of what was written before.
C39_RestartReplaces ==
    [][(/\ call'.op = "startSession"
        /\ handover.initialized
        /\ call'.sessionId \in DOMAIN handover.sessions) =>
           LET id == call'.sessionId
           IN  /\ DOMAIN handover'.sessions = DOMAIN handover.sessions
               /\ ret' = handover'.sessions[id]
               /\ handover'.sessions[id].currentStageIndex = Whole(0)
               /\ \A key \in Keys :
                     Session_getState(handover'.sessions[id], key) = undefined
               /\ \A other \in DOMAIN handover.sessions \ {id} :
                     handover'.sessions[other] = handover.sessions[other]
               /\ handover'.currentSessionId = id
               /\ Truthy(id) =>
                     /\ Handover_getCurrentSession(handover') = ret'
                     /\ \A key \in Keys :
                           HandoverManager_getSessionState(handover', key) = undefined]_vars

\* s1, registered since the scene began, has just been started again: it is
\* back at stage index 0 with nothing stored, while s2 keeps what was written
\* to it
C39_Witness ==
    /\ call.op = "startSession"
    /\ call.sessionId = "s1"
    /\ handover.currentSessionId = "s1"
    /\ handover.sessions["s1"].currentStageIndex = Whole(0)
    /\ handover.sessions["s1"].state["k"] = undefined
    /\ "s2" \in DOMAIN handover.sessions
    /\ handover.sessions["s2"].state["k"] = "v1"

\* the Game scene is running in the stage GamePreparation, which allows aim,
\* charge and cancelShot
InGamePreparation(h) ==
    /\ Handover_getCurrentStage(h) # NullRef
    /\ Handover_getCurrentStage(h).name = "GamePreparation"
    /\ Handover_getCurrentStage(h).allowedActions = {"aim", "charge", "cancelShot"}

\* C40: while the Game scene runs, the current stage is GamePreparation with
\* the allowed actions aim, charge and cancelShot; its one-shot pointer
\* handler performs fire, which the gate denies, so the callback does not run:
\* the gate is unchanged, no scene is started and the Game scene keeps running.
C40_GameStaysInPreparation ==
    /\ [](managers["Game"].status = "running" => InGamePreparation(handover))
    /\ [][(call'.op = "pointerdown" /\ call'.scene = "Game") =>
             /\ ret' = Bool(FALSE)
             /\ ran' = 0
             /\ handover' = handover
             /\ managers'["Game"].status = "running"
             /\ managers'["GameOver"] = managers["GameOver"]
             /\ managers'["MainMenu"] = managers["MainMenu"]]_vars

\* the pointer has been pressed on the Game scene and nothing followed
C40_Witness ==
    /\ call.op = "pointerdown"
    /\ call.scene = "Game"
    /\ ~managers["Game"].once
    /\ managers["Game"].status = "running"
    /\ managers["GameOver"].status = "none"
    /\ InGamePreparation(handover)

====
